---- MODULE Spec2Model ----
(***************************************************************************)
(* Lead/contact data-access layer of the CRM client                        *)
(* (src/src/contexts/LeadDataContext.jsx): the role-based access policy,   *)
(* the freshness cache, the Record Store (leads, contacts) and the façade  *)
(* operations, together with the persistence backend they call.            *)
(*                                                                         *)
(* An asynchronous façade operation is two steps: the call (everything up  *)
(* to its first await, which reads the state of the render that created    *)
(* the callback) and the response (everything after the await, which uses  *)
(* the values the call captured and functional state updates).             *)
(***************************************************************************)
EXTENDS Integers, Sequences, FiniteSets, TLC

VARIABLES
    supabase,       \* TRUE iff the persistence client was created (module scope)
    currentUser,    \* the actor supplied by the auth context, or NoUser
    leads,          \* Record Store: sequence of lead snapshots
    contacts,       \* Record Store: sequence of contact snapshots
    loading,        \* loading flag
    error,          \* error message, or NoError
    leadsCache,     \* [list: filters -> entry, lead: id -> entry]
    contactsCache,  \* lead id -> entry
    now,            \* Date.now()
    dbLeads,        \* persistence: rows of table leads, newest first
    dbContacts,     \* persistence: rows of table contacts, newest first
    dbNextId,       \* persistence: next generated row id
    inflight,       \* requests sent to persistence and not yet answered
    calls,          \* number of façade operations called so far
    actorReplaced,  \* TRUE once an installed actor was replaced or removed
    last,           \* the last façade step: operation, path taken, value returned
    perm,           \* the last direct hasPermission call and its result
    form,           \* the LeadForm on screen: its fields and flags, or NoForm
    data,           \* DataProvider's own leads and contacts (DataContext.tsx)
    session         \* AuthProvider's session: the id of the authenticated user

vars == << supabase, currentUser, leads, contacts, loading, error, leadsCache,
           contactsCache, now, dbLeads, dbContacts, dbNextId, inflight,
           calls, actorReplaced, last, perm, form, data, session >>

----------------------------------------------------------------------------
(* Bounds of the model *)

MaxInFlight == 1
MaxCalls == 2

----------------------------------------------------------------------------
(* Program constants and seed data *)

CACHE_EXPIRY == 5 * 60 * 1000

JohnId == "e8a1d4a6"
SarahId == "f9b2e5c7"
MikeId == "a3c4f6d8"

UserIds == {JohnId, SarahId, MikeId}

NoUser == [id |-> "null", role |-> "null"]
NoLead == [id |-> 0, name |-> "null", email |-> "null", status |-> "null",
           pipeline_id |-> "null", assigned_to |-> "null", org_id |-> "null"]
NoError == "null"
NoSession == "null"

\* AuthProvider.mockUser
mockUser == [id |-> JohnId, role |-> "Manager"]

\* rows of table users (role is constrained to the three roles)
dbUsers == { [id |-> JohnId, role |-> "Manager"],
             [id |-> SarahId, role |-> "Sales Rep"] }

LeadA == 1
LeadB == 2
LeadC == 3

\* pipeline_id of the seed leads
SalesPipeline == "c5e6h8f0"

mockLeads ==
    << [id |-> LeadA, name |-> "Mohammed Yousuf", email |-> "yousuf@example.com",
        status |-> "New", pipeline_id |-> SalesPipeline, assigned_to |-> SarahId,
        org_id |-> "org-1"],
       [id |-> LeadB, name |-> "Aarav Sinha", email |-> "aarav@client.com",
        status |-> "Qualified", pipeline_id |-> SalesPipeline, assigned_to |-> JohnId,
        org_id |-> "org-1"],
       [id |-> LeadC, name |-> "Priya Sharma", email |-> "priya@business.com",
        status |-> "Contacted", pipeline_id |-> SalesPipeline, assigned_to |-> MikeId,
        org_id |-> "org-1"] >>

\* `lead-${Date.now()}` and `contact-${Date.now()}`: one id per clock value,
\* apart from every seed and every backend-generated id
LocalIdBase == 1000000
LocalId(t) == LocalIdBase + t

\* first id the backend generates
DbFirstId == 10

----------------------------------------------------------------------------
(* Access Policy *)

Truthy(v) == v = "true"

Bool(b) == IF b THEN "true" ELSE "false"

\* hasPermission with the Sales Rep ownership test on view left out
hasPermissionValue_RepViewsAll(user, action, lead) ==
    IF user = NoUser THEN "false"
    ELSE CASE user.role = "Admin" -> "true"
           [] user.role = "Manager" -> "true"
           [] user.role = "Sales Rep" ->
                CASE action = "view" -> "true"
                  [] action = "create" -> "true"
                  [] action \in {"edit", "delete"} ->
                        IF lead = NoLead THEN "null"
                        ELSE Bool(lead.assigned_to = user.id)
                  [] OTHER -> "false"
           [] OTHER -> "false"

\* hasPermission with Manager edit/delete scoped to the manager's own leads
hasPermissionValue_ManagerOwnOnly(user, action, lead) ==
    IF user = NoUser THEN "false"
    ELSE CASE user.role = "Admin" -> "true"
           [] user.role = "Manager" ->
                IF action \in {"edit", "delete"}
                THEN Bool(lead # NoLead /\ lead.assigned_to = user.id)
                ELSE "true"
           [] user.role = "Sales Rep" ->
                CASE action = "view" ->
                        Bool(lead = NoLead \/ lead.assigned_to = user.id)
                  [] action = "create" -> "true"
                  [] action \in {"edit", "delete"} ->
                        IF lead = NoLead THEN "null"
                        ELSE Bool(lead.assigned_to = user.id)
                  [] OTHER -> "false"
           [] OTHER -> "false"

\* hasPermission with edit/delete written like view: !lead || own
hasPermissionValue_RepEditNoLead(user, action, lead) ==
    IF user = NoUser THEN "false"
    ELSE CASE user.role = "Admin" -> "true"
           [] user.role = "Manager" -> "true"
           [] user.role = "Sales Rep" ->
                CASE action = "view" ->
                        Bool(lead = NoLead \/ lead.assigned_to = user.id)
                  [] action = "create" -> "true"
                  [] action \in {"edit", "delete"} ->
                        Bool(lead = NoLead \/ lead.assigned_to = user.id)
                  [] OTHER -> "false"
           [] OTHER -> "false"

\* hasPermission with a default branch that allows
hasPermissionValue_DefaultAllow(user, action, lead) ==
    IF user = NoUser THEN "false"
    ELSE CASE user.role = "Admin" -> "true"
           [] user.role = "Manager" -> "true"
           [] user.role = "Sales Rep" ->
                CASE action = "view" ->
                        Bool(lead = NoLead \/ lead.assigned_to = user.id)
                  [] action = "create" -> "true"
                  [] action \in {"edit", "delete"} ->
                        IF lead = NoLead THEN "null"
                        ELSE Bool(lead.assigned_to = user.id)
                  [] OTHER -> "false"
           [] OTHER -> "true"

\* value returned by hasPermission(action, lead) for the actor user;
\* lead = NoLead stands for the default parameter null
hasPermissionValue(user, action, lead) ==
    IF user = NoUser THEN "false"
    ELSE CASE user.role = "Admin" -> "true"
           [] user.role = "Manager" -> "true"
           [] user.role = "Sales Rep" ->
                CASE action = "view" ->
                        Bool(lead = NoLead \/ lead.assigned_to = user.id)
                  [] action = "create" -> "true"
                  [] action \in {"edit", "delete"} ->
                        IF lead = NoLead THEN "null"
                        ELSE Bool(lead.assigned_to = user.id)
                  [] OTHER -> "false"
           [] OTHER -> "false"

hasPermission(user, action, lead) == Truthy(hasPermissionValue(user, action, lead))


----------------------------------------------------------------------------
(* Inputs of the operations *)

Absent == "absent"
Undefined == "undefined"

\* a filters object is the sequence of its own <<key, value>> pairs, in
\* insertion order; JSON.stringify(filters) is one string per such sequence
Filters == { << >>, << <<"status", "Qualified">> >> }

\* property read filters[k]: Absent when the object has no such key
FilterGet(filters, k) ==
    IF \E i \in 1..Len(filters) : filters[i][1] = k
    THEN filters[CHOOSE i \in 1..Len(filters) : filters[i][1] = k][2]
    ELSE Absent

\* the updates argument of updateLead
Updates ==
    { [status |-> "Won", assigned_to |-> Absent, org_id |-> Absent, assignedTo |-> Absent] }

\* the leadData argument of createLead, as LeadForm.submitForm builds it
LeadData == { [name |-> "Zara Khan", email |-> "zara@example.com", status |-> "New",
               pipeline_id |-> SalesPipeline, pipelineId |-> Undefined,
               assigned_to |-> SarahId, assignedTo |-> Undefined,
               org_id |-> "org-1", orgId |-> Undefined] }

\* ids of leads a caller may name
LeadIdArgs == {LeadA, LeadB}

\* leads a contact operation may name
ContactLeadArgs == {LeadB}

ContactX == 101
ContactY == 102

seedContacts ==
    << [id |-> ContactX, lead_id |-> LeadA, name |-> "orig"],
       [id |-> ContactY, lead_id |-> LeadB, name |-> "orig"] >>

----------------------------------------------------------------------------
(* Helpers on sequences and maps *)

SeqToSet(s) == { s[i] : i \in 1..Len(s) }

HasId(s, id) == \E i \in 1..Len(s) : s[i].id = id

\* Array.prototype.find on the id
FindLead(s, id) ==
    IF HasId(s, id) THEN s[CHOOSE i \in 1..Len(s) :
                              s[i].id = id /\ \A j \in 1..(i - 1) : s[j].id # id]
    ELSE NoLead

NoContact == [id |-> 0, lead_id |-> 0, name |-> "null"]

FindContact(s, id) ==
    IF HasId(s, id) THEN s[CHOOSE i \in 1..Len(s) :
                              s[i].id = id /\ \A j \in 1..(i - 1) : s[j].id # id]
    ELSE NoContact

\* an upsert that inserts the item again instead of replacing it
ReplaceById_Prepend(s, id, item) == << item >> \o s

\* a replacement that leaves the stored item in place
ReplaceById_Unchanged(s, id, item) == s

\* prev.map(x => x.id === id ? item : x)
ReplaceById(s, id, item) == [i \in 1..Len(s) |-> IF s[i].id = id THEN item ELSE s[i]]

\* prev.filter(x => x.id !== id)
RemoveById(s, id) == SelectSeq(s, LAMBDA x : x.id # id)

\* the contacts store emptied instead of filtered
RemoveByLead_All(s, leadId) == << >>

\* prev.filter(contact => contact.lead_id !== leadId)
RemoveByLead(s, leadId) == SelectSeq(s, LAMBDA c : c.lead_id # leadId)

EmptyMap == [k \in {} |-> 0]

MapSet(m, k, v) == [x \in (DOMAIN m) \cup {k} |-> IF x = k THEN v ELSE m[x]]

MapDelete(m, k) == [x \in (DOMAIN m) \ {k} |-> m[x]]

EmptyLeadsCache == [list |-> EmptyMap, lead |-> EmptyMap]

----------------------------------------------------------------------------
(* Strings *)

\* the characters of the strings the leads, the filters and the form hold
Chars(s) ==
    CASE s = "Mohammed Yousuf" -> << "M", "o", "h", "a", "m", "m", "e", "d", " ", "Y", "o", "u", "s", "u", "f" >>
      [] s = "yousuf@example.com" -> << "y", "o", "u", "s", "u", "f", "@", "e", "x", "a", "m", "p", "l", "e", ".", "c", "o", "m" >>
      [] s = "Aarav Sinha" -> << "A", "a", "r", "a", "v", " ", "S", "i", "n", "h", "a" >>
      [] s = "aarav@client.com" -> << "a", "a", "r", "a", "v", "@", "c", "l", "i", "e", "n", "t", ".", "c", "o", "m" >>
      [] s = "Priya Sharma" -> << "P", "r", "i", "y", "a", " ", "S", "h", "a", "r", "m", "a" >>
      [] s = "priya@business.com" -> << "p", "r", "i", "y", "a", "@", "b", "u", "s", "i", "n", "e", "s", "s", ".", "c", "o", "m" >>
      [] s = "Zara Khan" -> << "Z", "a", "r", "a", " ", "K", "h", "a", "n" >>
      [] s = "zara@example.com" -> << "z", "a", "r", "a", "@", "e", "x", "a", "m", "p", "l", "e", ".", "c", "o", "m" >>
      [] s = "AARAV" -> << "A", "A", "R", "A", "V" >>
      [] s = "example" -> << "e", "x", "a", "m", "p", "l", "e" >>
      [] s = "Yousuf@Example.com" -> << "Y", "o", "u", "s", "u", "f", "@", "E", "x", "a", "m", "p", "l", "e", ".", "c", "o", "m" >>
      [] s = " " -> << " " >>
      [] s = "zara" -> << "z", "a", "r", "a" >>
      [] OTHER -> << >>

\* the strings of the model
Strings ==
    { "", " ", "zara", "Mohammed Yousuf", "yousuf@example.com", "Aarav Sinha",
      "aarav@client.com", "Priya Sharma", "priya@business.com", "Zara Khan",
      "zara@example.com", "AARAV", "example", "Yousuf@Example.com" }

\* the string that has these characters
Str(cs) == CHOOSE s \in Strings : Chars(s) = cs

UpperCase == << "A", "B", "C", "D", "E", "F", "G", "H", "I", "J", "K", "L", "M", "N", "O", "P", "Q", "R", "S", "T", "U", "V", "W", "X", "Y", "Z" >>
LowerCase == << "a", "b", "c", "d", "e", "f", "g", "h", "i", "j", "k", "l", "m", "n", "o", "p", "q", "r", "s", "t", "u", "v", "w", "x", "y", "z" >>

\* String.prototype.toLowerCase, on the characters
toLowerCase(cs) ==
    [i \in 1..Len(cs) |->
        IF \E k \in 1..Len(UpperCase) : UpperCase[k] = cs[i]
        THEN LowerCase[CHOOSE k \in 1..Len(UpperCase) : UpperCase[k] = cs[i]]
        ELSE cs[i]]

RECURSIVE trimStart(_)
trimStart(cs) == IF cs # << >> /\ Head(cs) = " " THEN trimStart(Tail(cs)) ELSE cs

RECURSIVE trimEnd(_)
trimEnd(cs) ==
    IF cs # << >> /\ cs[Len(cs)] = " " THEN trimEnd(SubSeq(cs, 1, Len(cs) - 1)) ELSE cs

\* String.prototype.trim, on the characters
trim(cs) == trimEnd(trimStart(cs))

\* String.prototype.includes, on the characters
includes(cs, sub) ==
    \E i \in 0..(Len(cs) - Len(sub)) : SubSeq(cs, i + 1, i + Len(sub)) = sub

----------------------------------------------------------------------------
(* Query Scoper, freshness test, merges *)

\* a filter callback that does not look at filters.search
MatchesFilters_NoSearch(lead, filters) ==
    /\ (FilterGet(filters, "status") # Absent => lead.status = FilterGet(filters, "status"))
    /\ (FilterGet(filters, "assigned_to") # Absent
            => lead.assigned_to = FilterGet(filters, "assigned_to"))
    /\ (FilterGet(filters, "pipeline_id") # Absent
            => lead.pipeline_id = FilterGet(filters, "pipeline_id"))

\* the filter callback of the seed fallback, and the .eq() / .or() filters of
\* the query
MatchesFilters(lead, filters) ==
    /\ (FilterGet(filters, "status") # Absent => lead.status = FilterGet(filters, "status"))
    /\ (FilterGet(filters, "assigned_to") # Absent
            => lead.assigned_to = FilterGet(filters, "assigned_to"))
    /\ (FilterGet(filters, "pipeline_id") # Absent
            => lead.pipeline_id = FilterGet(filters, "pipeline_id"))
    /\ (FilterGet(filters, "search") # Absent
            => LET searchLower == toLowerCase(Chars(FilterGet(filters, "search"))) IN
               \/ includes(toLowerCase(Chars(lead.name)), searchLower)
               \/ includes(toLowerCase(Chars(lead.email)), searchLower))

filteredMockLeads(filters) == SelectSeq(mockLeads, LAMBDA l : MatchesFilters(l, filters))

\* rows the query returns once applyRoleFilters has narrowed it
applyRoleFilters(user, rows) ==
    IF user = NoUser THEN rows
    ELSE IF user.role = "Sales Rep"
         THEN SelectSeq(rows, LAMBDA l : l.assigned_to = user.id)
         ELSE rows

\* timestamp && (Date.now() - timestamp) < CACHE_EXPIRY
isCacheValid(timestamp, t) == timestamp # 0 /\ (t - timestamp) < CACHE_EXPIRY

\* { ...existingLead, ...updates }
MergeLead(lead, updates) ==
    [id |-> lead.id, name |-> lead.name, email |-> lead.email,
     pipeline_id |-> lead.pipeline_id,
     status |-> IF updates.status # Absent THEN updates.status ELSE lead.status,
     assigned_to |-> IF updates.assigned_to # Absent THEN updates.assigned_to
                     ELSE lead.assigned_to,
     org_id |-> IF updates.org_id # Absent THEN updates.org_id ELSE lead.org_id]

\* the row after .update(updateData): only truthy fields are sent
UpdateRow(row, updates) ==
    [id |-> row.id, name |-> row.name, email |-> row.email,
     pipeline_id |-> row.pipeline_id,
     status |-> IF updates.status \notin {Absent, ""} THEN updates.status ELSE row.status,
     assigned_to |-> IF updates.assigned_to \notin {Absent, ""} THEN updates.assigned_to
                     ELSE row.assigned_to,
     org_id |-> row.org_id]


----------------------------------------------------------------------------
(* Records of the model *)

NoUpdates ==
    [status |-> Absent, assigned_to |-> Absent, org_id |-> Absent, assignedTo |-> Absent]

\* history: what the step before a call did
NoPrev == [op |-> "", path |-> "", id |-> 0, updates |-> NoUpdates]
PrevStep == [op |-> last.op, path |-> last.path, id |-> last.id, updates |-> last.updates]

\* the step just taken: operation, path, arguments, the actor whose
\* hasPermission the operation holds, and the value returned (a sequence:
\* empty for null, false and [], one element for a single record)
Last(op, path, id, lead, key, user, value) ==
    [op |-> op, path |-> path, id |-> id, lead |-> lead, key |-> key,
     user |-> user, value |-> value, ids |-> {}, updates |-> NoUpdates,
     prev |-> NoPrev]

\* a request awaiting its response, with what the call's closure holds; prev
\* is history, kept for a call that follows the step it depends on; row is
\* what the backend has answered: empty until the backend has processed the
\* request, then the row it read or wrote (NoLead when no row matched)
Request(op, id, key, user, lead, updates, contact) ==
    [op |-> op, id |-> id, key |-> key, user |-> user, lead |-> lead,
     updates |-> updates, contact |-> contact, ids |-> {}, leads |-> << >>,
     prev |-> NoPrev, row |-> << >>]

CanSend == Cardinality(inflight) < MaxInFlight

\* one more façade operation is called
Called == calls < MaxCalls /\ calls' = calls + 1

\* handleError that records no message
handleErrorMessage_Silent(operation) == NoError

\* handleError(error, operation)
handleErrorMessage(operation) == "Failed to " \o operation

----------------------------------------------------------------------------
(* fetchLeads *)

\* rows of the list query: role scope, then the filters
queryLeads(user, filters) ==
    SelectSeq(applyRoleFilters(user, dbLeads), LAMBDA l : MatchesFilters(l, filters))

\* the step before was a createLead that returned the new lead
FollowsCreate == last.op = "createLead" /\ last.value # << >>

FetchLeadsCall(filters) ==
    /\ UNCHANGED << form, data, session >>
    /\ Called
    /\ UNCHANGED << supabase, currentUser, contacts, leadsCache, contactsCache, now,
                    dbLeads, dbContacts, dbNextId, actorReplaced, perm >>
    /\ IF ~hasPermission(currentUser, "view", NoLead)
       THEN /\ error' = "You do not have permission to view leads"
            /\ loading' = FALSE
            /\ UNCHANGED << leads, inflight >>
            /\ last' = Last("fetchLeads", "denied", 0, 0, filters, currentUser, << >>)
       ELSE IF ~supabase \/ currentUser = NoUser
       THEN /\ leads' = filteredMockLeads(filters)
            /\ loading' = FALSE
            /\ error' = NoError
            /\ UNCHANGED inflight
            /\ last' = Last("fetchLeads", "mock", 0, 0, filters, currentUser,
                            filteredMockLeads(filters))
       ELSE IF filters \in DOMAIN leadsCache.list
               /\ isCacheValid(leadsCache.list[filters].timestamp, now)
       THEN /\ leads' = leadsCache.list[filters].data
            /\ loading' = FALSE
            /\ error' = NoError
            /\ UNCHANGED inflight
            /\ last' = Last("fetchLeads", "cache", 0, 0, filters, currentUser,
                            leadsCache.list[filters].data)
       ELSE /\ CanSend
            /\ inflight' = inflight \cup
                  {[Request("fetchLeads", 0, filters, currentUser, NoLead, NoUpdates,
                            NoContact)
                      EXCEPT !.prev = IF FollowsCreate THEN PrevStep ELSE NoPrev]}
            /\ loading' = TRUE
            /\ error' = NoError
            /\ UNCHANGED leads
            /\ last' = Last("fetchLeads", "call", 0, 0, filters, currentUser, << >>)

\* a query whose promise never settles: the continuation after the await
\* does not run
FetchLeadsResponse_Unsettled(r, ok) ==
    r \in inflight /\ r.op = "fetchLeads" /\ UNCHANGED vars

FetchLeadsResponse(r, ok) ==
    /\ UNCHANGED << form, data, session >>
    /\ r \in inflight /\ r.op = "fetchLeads"
    /\ inflight' = inflight \ {r}
    /\ UNCHANGED << supabase, currentUser, contacts, contactsCache, now, dbLeads,
                    dbContacts, dbNextId, calls, actorReplaced, perm, error >>
    /\ loading' = FALSE
    /\ IF ok
       THEN LET transformedLeads == queryLeads(r.user, r.key) IN
            /\ leadsCache' = [leadsCache EXCEPT !.list =
                                 MapSet(@, r.key, [data |-> transformedLeads,
                                                   timestamp |-> now])]
            /\ leads' = transformedLeads
            /\ last' = Last("fetchLeads", "fetched", 0, 0, r.key, r.user, transformedLeads)
       ELSE /\ leads' = filteredMockLeads(r.key)
            /\ UNCHANGED leadsCache
            /\ last' = Last("fetchLeads", "fallback", 0, 0, r.key, r.user,
                            filteredMockLeads(r.key))

----------------------------------------------------------------------------
(* fetchLeadById *)

\* the seed lookup of the unconfigured path and of the error fallback
mockLeadFor(user, leadId) ==
    LET mockLead == FindLead(mockLeads, leadId) IN
    IF mockLead # NoLead /\ hasPermission(user, "view", mockLead)
    THEN << mockLead >> ELSE << >>

\* the row the select of a request yields: the row the backend read when it
\* processed the request, or the row it holds now when it processes the
\* request as the response is delivered
AnsweredRow(r) ==
    IF r.row # << >> THEN r.row[1] ELSE FindLead(dbLeads, r.id)

\* the backend processes the select of a fetchLeadById in flight; the
\* response is delivered later
ServeFetchLeadById(r) ==
    /\ r \in inflight /\ r.op = "fetchLeadById" /\ r.row = << >>
    /\ inflight' = (inflight \ {r}) \cup {[r EXCEPT !.row = << FindLead(dbLeads, r.id) >>]}
    /\ UNCHANGED << supabase, currentUser, leads, contacts, loading, error, leadsCache,
                    contactsCache, now, dbLeads, dbContacts, dbNextId, calls,
                    actorReplaced, last, perm, form, data, session >>

FetchLeadByIdCallBody(leadId) ==
    /\ Called
    /\ UNCHANGED << supabase, currentUser, leads, contacts, leadsCache, contactsCache,
                    now, dbLeads, dbContacts, dbNextId, actorReplaced,
                    perm >>
    /\ error' = NoError
    /\ IF ~supabase
       THEN /\ loading' = FALSE
            /\ UNCHANGED inflight
            /\ last' = Last("fetchLeadById", "mock", leadId, leadId, << >>, currentUser,
                            mockLeadFor(currentUser, leadId))
       ELSE IF /\ leadId \in DOMAIN leadsCache.lead
               /\ isCacheValid(leadsCache.lead[leadId].timestamp, now)
               /\ hasPermission(currentUser, "view", leadsCache.lead[leadId].data)
       THEN /\ loading' = FALSE
            /\ UNCHANGED inflight
            /\ last' = Last("fetchLeadById", "cache", leadId, leadId, << >>, currentUser,
                            << leadsCache.lead[leadId].data >>)
       ELSE /\ CanSend
            /\ inflight' = inflight \cup
                  {Request("fetchLeadById", leadId, << >>, currentUser, NoLead, NoUpdates,
                           NoContact)}
            /\ loading' = TRUE
            /\ last' = Last("fetchLeadById", "call", leadId, leadId, << >>, currentUser,
                            << >>)

FetchLeadByIdCall(leadId) == FetchLeadByIdCallBody(leadId) /\ UNCHANGED << form, data, session >>

FetchLeadByIdResponseBody(r, ok) ==
    /\ r \in inflight /\ r.op = "fetchLeadById"
    /\ inflight' = inflight \ {r}
    /\ UNCHANGED << supabase, currentUser, leads, contacts, contactsCache, now, dbLeads, dbContacts, dbNextId, calls, actorReplaced, perm >>
    /\ loading' = FALSE
    /\ IF ok /\ AnsweredRow(r) # NoLead
       THEN LET transformedLead == AnsweredRow(r) IN
            IF ~hasPermission(r.user, "view", transformedLead)
            THEN /\ error' = "You do not have permission to view this lead"
                 /\ UNCHANGED leadsCache
                 /\ last' = Last("fetchLeadById", "forbidden", r.id, r.id, << >>, r.user,
                                 << >>)
            ELSE /\ leadsCache' = [leadsCache EXCEPT !.lead =
                                      MapSet(@, r.id, [data |-> transformedLead,
                                                       timestamp |-> now])]
                 /\ UNCHANGED error
                 /\ last' = Last("fetchLeadById", "fetched", r.id, r.id, << >>, r.user,
                                 << transformedLead >>)
       ELSE /\ error' = handleErrorMessage("fetch lead details")
            /\ UNCHANGED leadsCache
            /\ last' = Last("fetchLeadById", "fallback", r.id, r.id, << >>, r.user,
                            mockLeadFor(r.user, r.id))


FetchLeadByIdResponse(r, ok) == FetchLeadByIdResponseBody(r, ok) /\ UNCHANGED << form, data, session >>

----------------------------------------------------------------------------
(* createLead *)

\* leadData.status || 'New'
StatusOrNew(status) == IF status \in {Absent, Undefined, ""} THEN "New" ELSE status

createLeadDenied(user) == ~hasPermission(user, "create", NoLead)

CreateLeadCallBody(leadData) ==
    /\ Called
    /\ UNCHANGED << supabase, currentUser, contacts, leadsCache, contactsCache, now,
                    dbLeads, dbContacts, dbNextId, actorReplaced, perm >>
    /\ IF createLeadDenied(currentUser)
       THEN /\ error' = "You do not have permission to create leads"
            /\ loading' = FALSE
            /\ UNCHANGED << leads, inflight >>
            /\ last' = Last("createLead", "denied", 0, 0, << >>, currentUser, << >>)
       ELSE IF ~supabase
       THEN LET newLead == [id |-> LocalId(now),
                            name |-> leadData.name,
                            email |-> leadData.email,
                            status |-> StatusOrNew(leadData.status),
                            pipeline_id |-> leadData.pipelineId,
                            assigned_to |-> leadData.assignedTo,
                            org_id |-> leadData.orgId] IN
            /\ leads' = << newLead >> \o leads
            /\ loading' = FALSE
            /\ error' = NoError
            /\ UNCHANGED inflight
            /\ last' = Last("createLead", "simulated", newLead.id, newLead.id, << >>,
                            currentUser, << newLead >>)
       ELSE LET insertData == [id |-> 0,
                               name |-> leadData.name,
                               email |-> leadData.email,
                               status |-> StatusOrNew(leadData.status),
                               pipeline_id |-> leadData.pipeline_id,
                               assigned_to |-> leadData.assigned_to,
                               org_id |-> leadData.org_id] IN
            /\ CanSend
            /\ inflight' = inflight \cup
                  {Request("createLead", 0, << >>, currentUser, insertData, NoUpdates,
                           NoContact)}
            /\ loading' = TRUE
            /\ error' = NoError
            /\ UNCHANGED leads
            /\ last' = Last("createLead", "call", 0, 0, << >>, currentUser, << >>)

CreateLeadCall(leadData) == CreateLeadCallBody(leadData) /\ UNCHANGED << form, data, session >>

CreateLeadResponseBody(r, ok) ==
    /\ r \in inflight /\ r.op = "createLead"
    /\ inflight' = inflight \ {r}
    /\ UNCHANGED << supabase, currentUser, contacts, contactsCache, now, dbContacts, calls, actorReplaced, perm >>
    /\ loading' = FALSE
    /\ IF ok
       THEN LET newLead == [r.lead EXCEPT !.id = dbNextId] IN
            /\ dbLeads' = << newLead >> \o dbLeads
            /\ dbNextId' = dbNextId + 1
            /\ leads' = << newLead >> \o leads
            /\ leadsCache' = EmptyLeadsCache
            /\ UNCHANGED error
            /\ last' = Last("createLead", "persisted", newLead.id, newLead.id, << >>,
                            r.user, << newLead >>)
       ELSE LET newLead == [r.lead EXCEPT !.id = LocalId(now)] IN
            /\ error' = handleErrorMessage("create lead")
            /\ leads' = << newLead >> \o leads
            /\ UNCHANGED << dbLeads, dbNextId, leadsCache >>
            /\ last' = Last("createLead", "failed", newLead.id, newLead.id, << >>,
                            r.user, << >>)

CreateLeadResponse(r, ok) == CreateLeadResponseBody(r, ok) /\ UNCHANGED << form, data, session >>

----------------------------------------------------------------------------
(* updateLead *)

\* the guard with the test that the lead is in the Record Store left out
updateLeadDenied_PermissionOnly(user, existingLead) ==
    ~hasPermission(user, "edit", existingLead)

\* !existingLead || !hasPermission('edit', existingLead)
updateLeadDenied(user, existingLead) ==
    existingLead = NoLead \/ ~hasPermission(user, "edit", existingLead)

\* the step before was the return of updateLead with these arguments
RepeatsUpdate(leadId, updates) ==
    /\ last.op = "updateLead" /\ last.id = leadId /\ last.updates = updates
    /\ last.path \in {"simulated", "persisted", "failed"}

\* the step before was an updateLead call on this lead that is still awaiting
\* its response
FollowsUpdateCall(leadId) ==
    last.op = "updateLead" /\ last.path = "call" /\ last.id = leadId

UpdateLeadCallBody(leadId, updates) ==
    /\ Called
    /\ UNCHANGED << supabase, currentUser, contacts, leadsCache, contactsCache, now,
                    dbLeads, dbContacts, dbNextId, actorReplaced, perm >>
    /\ LET existingLead == FindLead(leads, leadId) IN
       IF updateLeadDenied(currentUser, existingLead)
       THEN /\ error' = "You do not have permission to edit this lead"
            /\ loading' = FALSE
            /\ UNCHANGED << leads, inflight >>
            /\ last' = [Last("updateLead", "denied", leadId, leadId, << >>, currentUser,
                             << >>) EXCEPT !.updates = updates]
       ELSE IF ~supabase
       THEN LET updatedLead == MergeLead(existingLead, updates) IN
            /\ leads' = ReplaceById(leads, leadId, updatedLead)
            /\ loading' = FALSE
            /\ error' = NoError
            /\ UNCHANGED inflight
            /\ last' = [Last("updateLead", "simulated", leadId, leadId, << >>,
                             currentUser, << updatedLead >>)
                          EXCEPT !.updates = updates,
                                 !.prev = IF RepeatsUpdate(leadId, updates) THEN PrevStep
                                          ELSE NoPrev]
       ELSE /\ CanSend
            /\ inflight' = inflight \cup
                  {[Request("updateLead", leadId, << >>, currentUser, existingLead,
                            updates, NoContact)
                      EXCEPT !.prev = IF RepeatsUpdate(leadId, updates)
                                         \/ FollowsUpdateCall(leadId)
                                      THEN PrevStep ELSE NoPrev]}
            /\ loading' = TRUE
            /\ error' = NoError
            /\ UNCHANGED leads
            /\ last' = [Last("updateLead", "call", leadId, leadId, << >>, currentUser,
                             << >>) EXCEPT !.updates = updates]

UpdateLeadCall(leadId, updates) == UpdateLeadCallBody(leadId, updates) /\ UNCHANGED << form, data, session >>

\* the row the update of a request returns: the row the backend wrote when it
\* processed the request, or the row it writes now when it processes the
\* request as the response is delivered
UpdatedRow(r) ==
    IF r.row # << >> THEN r.row[1]
    ELSE IF HasId(dbLeads, r.id) THEN UpdateRow(FindLead(dbLeads, r.id), r.updates)
    ELSE NoLead

\* the backend processes the update of an updateLead in flight; the response
\* is delivered later
ServeUpdateLead(r) ==
    /\ r \in inflight /\ r.op = "updateLead" /\ r.row = << >>
    /\ inflight' = (inflight \ {r}) \cup {[r EXCEPT !.row = << UpdatedRow(r) >>]}
    /\ dbLeads' = IF HasId(dbLeads, r.id) THEN ReplaceById(dbLeads, r.id, UpdatedRow(r))
                  ELSE dbLeads
    /\ UNCHANGED << supabase, currentUser, leads, contacts, loading, error, leadsCache,
                    contactsCache, now, dbContacts, dbNextId, calls, actorReplaced,
                    last, perm, form, data, session >>

UpdateLeadResponseBody(r, ok) ==
    /\ r \in inflight /\ r.op = "updateLead"
    /\ inflight' = inflight \ {r}
    /\ UNCHANGED << supabase, currentUser, contacts, contactsCache, now, dbContacts, dbNextId, calls, actorReplaced, perm >>
    /\ loading' = FALSE
    /\ IF ok /\ UpdatedRow(r) # NoLead
       THEN LET updatedLead == UpdatedRow(r) IN
            /\ dbLeads' = IF r.row # << >> THEN dbLeads
                          ELSE ReplaceById(dbLeads, r.id, updatedLead)
            /\ leads' = ReplaceById(leads, r.id, updatedLead)
            /\ leadsCache' = [leadsCache EXCEPT !.lead = MapDelete(@, r.id)]
            /\ UNCHANGED error
            /\ last' = [Last("updateLead", "persisted", r.id, r.id, << >>, r.user,
                             << updatedLead >>)
                          EXCEPT !.updates = r.updates, !.prev = r.prev]
       ELSE LET updatedLead == MergeLead(r.lead, r.updates) IN
            /\ error' = handleErrorMessage("update lead")
            /\ leads' = ReplaceById(leads, r.id, updatedLead)
            /\ UNCHANGED << dbLeads, leadsCache >>
            /\ last' = [Last("updateLead", "failed", r.id, r.id, << >>, r.user, << >>)
                          EXCEPT !.updates = r.updates, !.prev = r.prev]

UpdateLeadResponse(r, ok) == UpdateLeadResponseBody(r, ok) /\ UNCHANGED << form, data, session >>

----------------------------------------------------------------------------
(* deleteLead *)

\* !existingLead || !hasPermission('delete', existingLead)
deleteLeadDenied(user, existingLead) ==
    existingLead = NoLead \/ ~hasPermission(user, "delete", existingLead)

DeleteLeadCall(leadId) ==
    /\ UNCHANGED << form, data, session >>
    /\ Called
    /\ UNCHANGED << supabase, currentUser, leadsCache, contactsCache, now, dbLeads, dbContacts, dbNextId, actorReplaced, perm >>
    /\ LET existingLead == FindLead(leads, leadId) IN
       IF deleteLeadDenied(currentUser, existingLead)
       THEN /\ error' = "You do not have permission to delete this lead"
            /\ loading' = FALSE
            /\ UNCHANGED << leads, contacts, inflight >>
            /\ last' = Last("deleteLead", "denied", leadId, leadId, << >>, currentUser,
                            << >>)
       ELSE IF ~supabase
       THEN /\ leads' = RemoveById(leads, leadId)
            /\ contacts' = RemoveByLead(contacts, leadId)
            /\ loading' = FALSE
            /\ error' = NoError
            /\ UNCHANGED inflight
            /\ last' = Last("deleteLead", "simulated", leadId, leadId, << >>,
                            currentUser, << existingLead >>)
       ELSE /\ CanSend
            /\ inflight' = inflight \cup
                  {Request("deleteLead", leadId, << >>, currentUser, existingLead,
                           NoUpdates, NoContact)}
            /\ loading' = TRUE
            /\ error' = NoError
            /\ UNCHANGED << leads, contacts >>
            /\ last' = Last("deleteLead", "call", leadId, leadId, << >>, currentUser,
                            << >>)

\* contactsOk: the outcome of the first request (delete of the lead's
\* contacts), whose result the code does not read
DeleteLeadResponse(r, ok, contactsOk) ==
    /\ UNCHANGED << form, data, session >>
    /\ r \in inflight /\ r.op = "deleteLead"
    /\ inflight' = inflight \ {r}
    /\ UNCHANGED << supabase, currentUser, now, dbNextId, calls,
                    actorReplaced, perm >>
    /\ loading' = FALSE
    /\ leads' = RemoveById(leads, r.id)
    /\ contacts' = RemoveByLead(contacts, r.id)
    /\ IF ok
       THEN \* the lead's contacts go with it (ON DELETE CASCADE)
            /\ dbContacts' = RemoveByLead(dbContacts, r.id)
            /\ dbLeads' = RemoveById(dbLeads, r.id)
            /\ leadsCache' = [leadsCache EXCEPT !.lead = MapDelete(@, r.id)]
            /\ contactsCache' = MapDelete(contactsCache, r.id)
            /\ UNCHANGED error
            /\ last' = Last("deleteLead", "persisted", r.id, r.id, << >>, r.user,
                            << r.lead >>)
       ELSE /\ dbContacts' = IF contactsOk THEN RemoveByLead(dbContacts, r.id)
                             ELSE dbContacts
            /\ error' = handleErrorMessage("delete lead")
            /\ UNCHANGED << dbLeads, leadsCache, contactsCache >>
            /\ last' = Last("deleteLead", "failed", r.id, r.id, << >>, r.user, << >>)


----------------------------------------------------------------------------
(* bulkUpdateLeads *)

\* the leadIds argument of bulkUpdateLeads
BulkIdArgs == { {LeadA, LeadB} }

\* leads.map(lead => leadIds.includes(lead.id) ? { ...lead, ...updates } : lead)
MergeAll(s, leadIds, updates) ==
    [i \in 1..Len(s) |-> IF s[i].id \in leadIds THEN MergeLead(s[i], updates) ELSE s[i]]

\* rows after .update(updateData).in('id', leadIds)
UpdateRows(rows, leadIds, updates) ==
    [i \in 1..Len(rows) |-> IF rows[i].id \in leadIds THEN UpdateRow(rows[i], updates)
                            ELSE rows[i]]

\* prev.map(lead => updatedLeads.find(ul => ul.id === lead.id) || lead)
ReplaceAll(s, updatedLeads) ==
    [i \in 1..Len(s) |-> IF HasId(updatedLeads, s[i].id)
                         THEN FindLead(updatedLeads, s[i].id) ELSE s[i]]

\* `You do not have permission to edit ${unauthorizedLeads.length} of the selected leads`
bulkDeniedMessage(n) ==
    "You do not have permission to edit " \o ToString(n) \o " of the selected leads"

BulkUpdateLeadsCall(leadIds, updates) ==
    /\ UNCHANGED << form, data, session >>
    /\ Called
    /\ UNCHANGED << supabase, currentUser, contacts, leadsCache, contactsCache, now,
                    dbLeads, dbContacts, dbNextId, actorReplaced, perm >>
    /\ LET leadsToUpdate == SelectSeq(leads, LAMBDA l : l.id \in leadIds)
           unauthorizedLeads ==
               SelectSeq(leadsToUpdate, LAMBDA l : ~hasPermission(currentUser, "edit", l))
       IN
       IF Len(unauthorizedLeads) > 0
       THEN /\ error' = bulkDeniedMessage(Len(unauthorizedLeads))
            /\ loading' = FALSE
            /\ UNCHANGED << leads, inflight >>
            /\ last' = [Last("bulkUpdateLeads", "denied", 0, 0, << >>, currentUser, << >>)
                          EXCEPT !.ids = leadIds, !.updates = updates]
       ELSE IF ~supabase
       THEN LET updatedLeads == MergeAll(leads, leadIds, updates) IN
            /\ leads' = updatedLeads
            /\ loading' = FALSE
            /\ error' = NoError
            /\ UNCHANGED inflight
            /\ last' = [Last("bulkUpdateLeads", "simulated", 0, 0, << >>, currentUser,
                             SelectSeq(updatedLeads, LAMBDA l : l.id \in leadIds))
                          EXCEPT !.ids = leadIds, !.updates = updates]
       ELSE /\ CanSend
            /\ inflight' = inflight \cup
                  {[Request("bulkUpdateLeads", 0, << >>, currentUser, NoLead, updates,
                            NoContact) EXCEPT !.ids = leadIds, !.leads = leads]}
            /\ loading' = TRUE
            /\ error' = NoError
            /\ UNCHANGED leads
            /\ last' = [Last("bulkUpdateLeads", "call", 0, 0, << >>, currentUser, << >>)
                          EXCEPT !.ids = leadIds, !.updates = updates]

BulkUpdateLeadsResponse(r, ok) ==
    /\ UNCHANGED << form, data, session >>
    /\ r \in inflight /\ r.op = "bulkUpdateLeads"
    /\ inflight' = inflight \ {r}
    /\ UNCHANGED << supabase, currentUser, contacts, contactsCache, now, dbContacts,
                    dbNextId, calls, actorReplaced, perm >>
    /\ loading' = FALSE
    /\ IF ok
       THEN LET rows == UpdateRows(dbLeads, r.ids, r.updates)
                updatedLeads == SelectSeq(rows, LAMBDA l : l.id \in r.ids)
            IN
            /\ dbLeads' = rows
            /\ leads' = ReplaceAll(leads, updatedLeads)
            /\ leadsCache' = EmptyLeadsCache
            /\ UNCHANGED error
            /\ last' = [Last("bulkUpdateLeads", "persisted", 0, 0, << >>, r.user,
                             updatedLeads) EXCEPT !.ids = r.ids, !.updates = r.updates]
       ELSE /\ error' = handleErrorMessage("bulk update leads")
            /\ leads' = MergeAll(r.leads, r.ids, r.updates)
            /\ UNCHANGED << dbLeads, leadsCache >>
            /\ last' = [Last("bulkUpdateLeads", "failed", 0, 0, << >>, r.user, << >>)
                          EXCEPT !.ids = r.ids, !.updates = r.updates]

----------------------------------------------------------------------------
(* Contact operations *)

ContactOps == {"addContact", "updateContact", "deleteContact"}

\* ids of the contacts a caller can name: those listed from persistence and
\* those in the Record Store
ContactIdArgs == { c.id : c \in SeqToSet(dbContacts) \cup SeqToSet(contacts) }

\* the leadId of the contact a call names, 0 when no such contact is known
ContactLeadId(contactId) ==
    IF HasId(contacts, contactId) THEN FindContact(contacts, contactId).lead_id
    ELSE FindContact(dbContacts, contactId).lead_id

FetchContactsByLeadIdCall(leadId) ==
    /\ UNCHANGED << form, data, session >>
    /\ Called
    /\ UNCHANGED << supabase, currentUser, leads, contacts, leadsCache, contactsCache,
                    now, dbLeads, dbContacts, dbNextId, actorReplaced,
                    perm >>
    /\ error' = NoError
    /\ IF ~supabase
       THEN /\ loading' = FALSE
            /\ UNCHANGED inflight
            /\ last' = Last("fetchContactsByLeadId", "mock", 0, leadId, << >>,
                            currentUser, << >>)
       ELSE IF leadId \in DOMAIN contactsCache
               /\ isCacheValid(contactsCache[leadId].timestamp, now)
       THEN /\ loading' = FALSE
            /\ UNCHANGED inflight
            /\ last' = Last("fetchContactsByLeadId", "cache", 0, leadId, << >>,
                            currentUser, contactsCache[leadId].data)
       ELSE /\ CanSend
            /\ inflight' = inflight \cup
                  {Request("fetchContactsByLeadId", leadId, << >>, currentUser, NoLead,
                           NoUpdates, NoContact)}
            /\ loading' = TRUE
            /\ last' = Last("fetchContactsByLeadId", "call", 0, leadId, << >>,
                            currentUser, << >>)

FetchContactsByLeadIdResponse(r, ok) ==
    /\ UNCHANGED << form, data, session >>
    /\ r \in inflight /\ r.op = "fetchContactsByLeadId"
    /\ inflight' = inflight \ {r}
    /\ UNCHANGED << supabase, currentUser, leads, leadsCache, now, dbLeads,
                    dbContacts, dbNextId, calls, actorReplaced, perm >>
    /\ loading' = FALSE
    /\ IF ok
       THEN LET transformedContacts ==
                    SelectSeq(dbContacts, LAMBDA c : c.lead_id = r.id) IN
            /\ contactsCache' = MapSet(contactsCache, r.id,
                                       [data |-> transformedContacts, timestamp |-> now])
            /\ UNCHANGED << contacts, error >>
            /\ last' = Last("fetchContactsByLeadId", "fetched", 0, r.id, << >>, r.user,
                            transformedContacts)
       ELSE /\ error' = handleErrorMessage("fetch contacts")
            /\ contacts' = << >>
            /\ UNCHANGED contactsCache
            /\ last' = Last("fetchContactsByLeadId", "fallback", 0, r.id, << >>, r.user,
                            << >>)

AddContactCall(leadId) ==
    /\ UNCHANGED << form, data, session >>
    /\ Called
    /\ UNCHANGED << supabase, currentUser, leads, leadsCache, contactsCache, now, dbLeads, dbContacts, dbNextId, actorReplaced, perm >>
    /\ error' = NoError
    /\ IF ~supabase
       THEN LET newContact == [id |-> LocalId(now), lead_id |-> leadId, name |-> "new"] IN
            /\ contacts' = << newContact >> \o contacts
            /\ loading' = FALSE
            /\ UNCHANGED inflight
            /\ last' = Last("addContact", "simulated", newContact.id, leadId, << >>,
                            currentUser, << newContact >>)
       ELSE /\ CanSend
            /\ inflight' = inflight \cup
                  {Request("addContact", 0, << >>, currentUser, NoLead, NoUpdates,
                           [id |-> 0, lead_id |-> leadId, name |-> "new"])}
            /\ loading' = TRUE
            /\ UNCHANGED contacts
            /\ last' = Last("addContact", "call", 0, leadId, << >>, currentUser, << >>)

AddContactResponse(r, ok) ==
    /\ UNCHANGED << form, data, session >>
    /\ r \in inflight /\ r.op = "addContact"
    /\ inflight' = inflight \ {r}
    /\ UNCHANGED << supabase, currentUser, leads, leadsCache, now, dbLeads,
                    calls, actorReplaced, perm >>
    /\ loading' = FALSE
    /\ IF ok /\ HasId(dbLeads, r.contact.lead_id)
       THEN LET newContact == [r.contact EXCEPT !.id = dbNextId] IN
            /\ dbContacts' = << newContact >> \o dbContacts
            /\ dbNextId' = dbNextId + 1
            /\ contacts' = << newContact >> \o contacts
            /\ contactsCache' = MapDelete(contactsCache, r.contact.lead_id)
            /\ UNCHANGED error
            /\ last' = Last("addContact", "persisted", newContact.id, newContact.lead_id,
                            << >>, r.user, << newContact >>)
       ELSE LET newContact == [r.contact EXCEPT !.id = LocalId(now)] IN
            /\ error' = handleErrorMessage("add contact")
            /\ contacts' = << newContact >> \o contacts
            /\ UNCHANGED << dbContacts, dbNextId, contactsCache >>
            /\ last' = Last("addContact", "failed", newContact.id, newContact.lead_id,
                            << >>, r.user, << >>)

\* the updates argument is { name: "edited" }
EditContact(contact) == [contact EXCEPT !.name = "edited"]

UpdateContactCall(contactId) ==
    /\ UNCHANGED << form, data, session >>
    /\ Called
    /\ UNCHANGED << supabase, currentUser, leads, leadsCache, contactsCache, now, dbLeads, dbContacts, dbNextId, actorReplaced, perm >>
    /\ error' = NoError
    /\ LET existingContact == FindContact(contacts, contactId) IN
       IF ~supabase
       THEN /\ loading' = FALSE
            /\ UNCHANGED inflight
            /\ IF existingContact # NoContact
               THEN /\ contacts' = ReplaceById(contacts, contactId,
                                               EditContact(existingContact))
                    /\ last' = Last("updateContact", "simulated", contactId,
                                    existingContact.lead_id, << >>, currentUser,
                                    << EditContact(existingContact) >>)
               ELSE /\ UNCHANGED contacts
                    /\ last' = Last("updateContact", "missing", contactId, 0, << >>,
                                    currentUser, << >>)
       ELSE /\ CanSend
            /\ inflight' = inflight \cup
                  {Request("updateContact", contactId, << >>, currentUser, NoLead,
                           NoUpdates, existingContact)}
            /\ loading' = TRUE
            /\ UNCHANGED contacts
            /\ last' = Last("updateContact", "call", contactId, ContactLeadId(contactId),
                            << >>, currentUser, << >>)

UpdateContactResponse(r, ok) ==
    /\ UNCHANGED << form, data, session >>
    /\ r \in inflight /\ r.op = "updateContact"
    /\ inflight' = inflight \ {r}
    /\ UNCHANGED << supabase, currentUser, leads, leadsCache, now, dbLeads,
                    dbNextId, calls, actorReplaced, perm >>
    /\ loading' = FALSE
    /\ IF ok /\ HasId(dbContacts, r.id)
       THEN LET updatedContact == EditContact(FindContact(dbContacts, r.id)) IN
            /\ dbContacts' = ReplaceById(dbContacts, r.id, updatedContact)
            /\ contacts' = ReplaceById(contacts, r.id, updatedContact)
            /\ contactsCache' = MapDelete(contactsCache, updatedContact.lead_id)
            /\ UNCHANGED error
            /\ last' = Last("updateContact", "persisted", r.id, updatedContact.lead_id,
                            << >>, r.user, << updatedContact >>)
       ELSE /\ error' = handleErrorMessage("update contact")
            /\ contacts' = IF r.contact # NoContact
                           THEN ReplaceById(contacts, r.id, EditContact(r.contact))
                           ELSE contacts
            /\ UNCHANGED << dbContacts, contactsCache >>
            /\ last' = Last("updateContact", "failed", r.id, r.contact.lead_id, << >>,
                            r.user, << >>)

DeleteContactCall(contactId) ==
    /\ UNCHANGED << form, data, session >>
    /\ Called
    /\ UNCHANGED << supabase, currentUser, leads, leadsCache, contactsCache, now, dbLeads, dbContacts, dbNextId, actorReplaced, perm >>
    /\ error' = NoError
    /\ IF ~supabase
       THEN /\ contacts' = RemoveById(contacts, contactId)
            /\ loading' = FALSE
            /\ UNCHANGED inflight
            /\ last' = Last("deleteContact", "simulated", contactId,
                            ContactLeadId(contactId), << >>, currentUser, << >>)
       ELSE /\ CanSend
            /\ inflight' = inflight \cup
                  {Request("deleteContact", contactId, << >>, currentUser, NoLead,
                           NoUpdates, NoContact)}
            /\ loading' = TRUE
            /\ UNCHANGED contacts
            /\ last' = Last("deleteContact", "call", contactId, ContactLeadId(contactId),
                            << >>, currentUser, << >>)

DeleteContactResponse(r, ok) ==
    /\ UNCHANGED << form, data, session >>
    /\ r \in inflight /\ r.op = "deleteContact"
    /\ inflight' = inflight \ {r}
    /\ UNCHANGED << supabase, currentUser, leads, leadsCache, now, dbLeads,
                    dbNextId, calls, actorReplaced, perm >>
    /\ loading' = FALSE
    /\ contacts' = RemoveById(contacts, r.id)
    /\ IF ok
       THEN /\ dbContacts' = RemoveById(dbContacts, r.id)
            /\ contactsCache' = EmptyMap
            /\ UNCHANGED error
            /\ last' = Last("deleteContact", "persisted", r.id, 0, << >>, r.user, << >>)
       ELSE /\ error' = handleErrorMessage("delete contact")
            /\ UNCHANGED << dbContacts, contactsCache >>
            /\ last' = Last("deleteContact", "failed", r.id, 0, << >>, r.user, << >>)


----------------------------------------------------------------------------
(* Session context: the actor the auth provider installs *)

SignUpRoles == {"Sales Rep"}

SetUser(user, op) ==
    /\ UNCHANGED << form, data >>
    /\ user # currentUser
    /\ currentUser' = user
    /\ actorReplaced' = (actorReplaced \/ currentUser # NoUser)
    /\ UNCHANGED << supabase, leads, contacts, loading, error, leadsCache, contactsCache,
                    now, dbLeads, dbContacts, dbNextId, inflight, calls, last,
                    perm >>

\* the session effect and signIn without a persistence client
MockSignIn == ~supabase /\ SetUser(mockUser, "signIn") /\ UNCHANGED session

\* signUp without a persistence client: the mock user with the chosen role
MockSignUp(role) ==
    ~supabase /\ SetUser([mockUser EXCEPT !.role = role], "signUp") /\ UNCHANGED session

\* setSession(session) and fetchUserProfile(session.user.id): the stored
\* profile of the authenticated user, or the mock user on error
FetchUserProfile(profile, ok) ==
    /\ supabase /\ SetUser(IF ok THEN profile ELSE mockUser, "fetchUserProfile")
    /\ session' = profile.id

SignOut == currentUser # NoUser /\ SetUser(NoUser, "signOut") /\ session' = NoSession

----------------------------------------------------------------------------
(* Clock *)

\* the instants the clock is observed at: the epoch, a later moment T0 = 1,
\* T0 + CACHE_EXPIRY - 1 and T0 + CACHE_EXPIRY
Instants == {0, 1, CACHE_EXPIRY, CACHE_EXPIRY + 1}

Tick(t) ==
    /\ UNCHANGED << form, data, session >>
    /\ t > now
    /\ now' = t
    /\ UNCHANGED << supabase, currentUser, leads, contacts, loading, error, leadsCache,
                    contactsCache, dbLeads, dbContacts, dbNextId, inflight, calls,
                    actorReplaced, last, perm >>

----------------------------------------------------------------------------
(* The façade *)

\* useState initial values of DataProvider: lead-1..lead-3, contact-1..contact-3
DataInitial ==
    [leads |-> << [id |-> 1, status |-> "New", assignedTo |-> "user-2"],
                  [id |-> 2, status |-> "Qualified", assignedTo |-> "user-1"],
                  [id |-> 3, status |-> "Contacted", assignedTo |-> "user-3"] >>,
     contacts |-> << [id |-> 1, leadId |-> 1], [id |-> 2, leadId |-> 2],
                     [id |-> 3, leadId |-> 2] >>]

\* no LeadForm is on screen
NoForm == [open |-> FALSE, leadId |-> 0, name |-> "", email |-> "", assigned_to |-> "",
           source |-> "", duplicateWarning |-> FALSE, showDuplicateDialog |-> FALSE,
           isSubmitting |-> FALSE, handler |-> ""]

NoPerm == [user |-> NoUser, action |-> "", lead |-> NoLead, result |-> ""]

InitFacade ==
    /\ supabase \in BOOLEAN
    /\ currentUser = NoUser
    /\ leads = << >>
    /\ contacts = << >>
    /\ loading = FALSE
    /\ error = NoError
    /\ leadsCache = EmptyLeadsCache
    /\ contactsCache = EmptyMap
    /\ now = 0
    /\ dbLeads = mockLeads
    /\ dbContacts = seedContacts
    /\ dbNextId = DbFirstId
    /\ inflight = {}
    /\ calls = 0
    /\ actorReplaced = FALSE
    /\ last = [op |-> "init", path |-> "", id |-> 0, lead |-> 0, key |-> << >>,
               user |-> NoUser, value |-> << >>, ids |-> {}, updates |-> NoUpdates,
               prev |-> NoPrev]
    /\ form = NoForm
    /\ data = DataInitial
    /\ session = NoSession

Init == InitFacade /\ perm = NoPerm

\* ids a caller can name for a lead: the seeds and whatever the store shows
LeadIds == LeadIdArgs \cup { l.id : l \in SeqToSet(leads) }

AuthStep ==
    \/ MockSignIn
    \/ \E role \in SignUpRoles : MockSignUp(role)
    \/ \E p \in dbUsers, ok \in BOOLEAN : FetchUserProfile(p, ok)
    \/ SignOut

\* the lead operations, with the contact operations that fill the contact
\* store and the contact cache
Next ==
    \/ \E f \in Filters : FetchLeadsCall(f)
    \/ \E r \in inflight, ok \in BOOLEAN : FetchLeadsResponse(r, ok)
    \/ \E id \in LeadIds : FetchLeadByIdCall(id)
    \/ \E r \in inflight, ok \in BOOLEAN : FetchLeadByIdResponse(r, ok)
    \/ \E d \in LeadData : CreateLeadCall(d)
    \/ \E r \in inflight, ok \in BOOLEAN : CreateLeadResponse(r, ok)
    \/ \E id \in LeadIds, u \in Updates : UpdateLeadCall(id, u)
    \/ \E r \in inflight, ok \in BOOLEAN : UpdateLeadResponse(r, ok)
    \/ \E id \in LeadIds : DeleteLeadCall(id)
    \/ \E r \in inflight, ok \in BOOLEAN, cok \in BOOLEAN : DeleteLeadResponse(r, ok, cok)
    \/ \E ids \in BulkIdArgs, u \in Updates : BulkUpdateLeadsCall(ids, u)
    \/ \E r \in inflight, ok \in BOOLEAN : BulkUpdateLeadsResponse(r, ok)
    \/ \E id \in ContactLeadArgs : FetchContactsByLeadIdCall(id)
    \/ \E r \in inflight, ok \in BOOLEAN : FetchContactsByLeadIdResponse(r, ok)
    \/ \E id \in ContactLeadArgs : AddContactCall(id)
    \/ \E r \in inflight, ok \in BOOLEAN : AddContactResponse(r, ok)
    \/ AuthStep
    \/ \E t \in Instants : Tick(t)

Spec == Init /\ [][Next]_vars

\* the contact operations, with the lead operations that fill the lead store
\* and remove a lead
ContactNext ==
    \/ \E f \in Filters : FetchLeadsCall(f)
    \/ \E r \in inflight, ok \in BOOLEAN : FetchLeadsResponse(r, ok)
    \/ \E id \in LeadIds : DeleteLeadCall(id)
    \/ \E r \in inflight, ok \in BOOLEAN, cok \in BOOLEAN : DeleteLeadResponse(r, ok, cok)
    \/ \E id \in ContactLeadArgs : FetchContactsByLeadIdCall(id)
    \/ \E r \in inflight, ok \in BOOLEAN : FetchContactsByLeadIdResponse(r, ok)
    \/ \E id \in ContactLeadArgs : AddContactCall(id)
    \/ \E r \in inflight, ok \in BOOLEAN : AddContactResponse(r, ok)
    \/ \E id \in ContactIdArgs : UpdateContactCall(id)
    \/ \E r \in inflight, ok \in BOOLEAN : UpdateContactResponse(r, ok)
    \/ \E id \in ContactIdArgs : DeleteContactCall(id)
    \/ \E r \in inflight, ok \in BOOLEAN : DeleteContactResponse(r, ok)
    \/ AuthStep
    \/ \E t \in Instants : Tick(t)

ContactSpec == Init /\ [][ContactNext]_vars

----------------------------------------------------------------------------
(* LeadForm: the form that creates or edits a lead through the façade *)

\* /^[^\s@]+@[^\s@]+\.[^\s@]+$/.test(value), on the characters
EmailPattern(cs) ==
    \E a \in 1..Len(cs), d \in 1..Len(cs) :
        /\ cs[a] = "@" /\ cs[d] = "."
        /\ a > 1 /\ d > a + 1 /\ d < Len(cs)
        /\ \A i \in 1..Len(cs) : cs[i] # " " /\ (cs[i] = "@" => i = a)

\* validateForm(): the fields that have an error
validateForm(formData) ==
    LET name == trim(Chars(formData.name)) IN
    (IF name = << >> \/ Len(name) < 2 THEN {"name"} ELSE {})
    \cup (IF trim(Chars(formData.email)) = << >> \/ ~EmailPattern(Chars(formData.email))
          THEN {"email"} ELSE {})
    \cup (IF formData.assigned_to = "" THEN {"assigned_to"} ELSE {})
    \cup (IF formData.source = "" THEN {"source"} ELSE {})

\* checkDuplicateEmail(email): the first lead of the store with that email
checkDuplicateEmail(leadId, email) ==
    IF email = "" \/ leadId # 0 THEN NoLead
    ELSE LET dup == { i \in 1..Len(leads) :
                        /\ toLowerCase(Chars(leads[i].email)) = toLowerCase(Chars(email))
                        /\ leads[i].id # leadId } IN
         IF dup = {} THEN NoLead ELSE leads[CHOOSE i \in dup : \A j \in dup : i <= j]

\* custom_fields.source of the seed leads
customSource(leadId) ==
    CASE leadId = LeadA -> "LinkedIn"
      [] leadId = LeadB -> "Website"
      [] leadId = LeadC -> "Referral"
      [] OTHER -> ""

\* the empty form of a new LeadForm
NewForm(leadId) ==
    [NoForm EXCEPT !.open = TRUE, !.leadId = leadId, !.assigned_to = currentUser.id,
                   !.handler = "open"]

\* setFormData of the load effect, when fetchLeadById returned a lead
LoadForm(f, value) ==
    IF value = << >> THEN f
    ELSE [f EXCEPT !.name = value[1].name, !.email = value[1].email,
                   !.assigned_to = value[1].assigned_to,
                   !.source = customSource(value[1].id)]

\* the form after createLead or updateLead returned result: onSave() closes it
AfterResult(f, value, h) ==
    IF value # << >> THEN [NoForm EXCEPT !.handler = h]
    ELSE [f EXCEPT !.isSubmitting = FALSE, !.handler = h]

\* leadData of submitForm, for createLead
FormLeadData(f) ==
    [name |-> Str(trim(Chars(f.name))),
     email |-> Str(toLowerCase(trim(Chars(f.email)))),
     status |-> "New",
     pipeline_id |-> SalesPipeline, pipelineId |-> Undefined,
     assigned_to |-> f.assigned_to, assignedTo |-> Undefined,
     org_id |-> "org-1", orgId |-> Undefined]

\* leadData of submitForm, for updateLead
FormUpdates(f) ==
    [status |-> "New", assigned_to |-> f.assigned_to, org_id |-> "org-1",
     assignedTo |-> Absent]

FormLeadArgs == {0, LeadA}

FormInputs ==
    { <<"name", " ">>, <<"name", "Zara Khan">>,
      <<"email", "zara">>, <<"email", "zara@example.com">>,
      <<"email", "Yousuf@Example.com">>,
      <<"source", "Website">> }

\* every variable of the provider
providerVars == << supabase, currentUser, leads, contacts, loading, error, leadsCache,
                   contactsCache, now, dbLeads, dbContacts, dbNextId, inflight, calls,
                   actorReplaced, last, perm >>

\* LeadList shows the form: for a new lead, or for a lead of the list
OpenForm(leadId) ==
    /\ UNCHANGED << data, session >>
    /\ ~form.open
    /\ IF leadId = 0
       THEN /\ hasPermission(currentUser, "create", NoLead)
            /\ form' = NewForm(0)
            /\ UNCHANGED providerVars
       ELSE /\ HasId(leads, leadId)
            /\ hasPermission(currentUser, "edit", FindLead(leads, leadId))
            /\ FetchLeadByIdCallBody(leadId)
            /\ form' = LoadForm(NewForm(leadId), last'.value)

\* the load effect's fetchLeadById returns
LoadFormResponse(r, ok) ==
    /\ UNCHANGED << data, session >>
    /\ FetchLeadByIdResponseBody(r, ok)
    /\ form' = IF form.open /\ form.leadId = r.id
               THEN [LoadForm(form, last'.value) EXCEPT !.handler = "load"]
               ELSE form

HandleInputChange(name, value) ==
    /\ UNCHANGED << data, session >>
    /\ form.open /\ ~form.isSubmitting /\ ~form.showDuplicateDialog
    /\ form' = [form EXCEPT ![name] = value,
                            !.duplicateWarning =
                                IF name = "email"
                                THEN checkDuplicateEmail(form.leadId, value) # NoLead
                                ELSE @,
                            !.handler = "input"]
    /\ UNCHANGED providerVars

\* submitForm() called by handler h on the form f
submitForm(f, h) ==
    /\ IF f.leadId # 0
       THEN UpdateLeadCallBody(f.leadId, FormUpdates(f))
       ELSE CreateLeadCallBody(FormLeadData(f))
    /\ form' = IF last'.path = "call"
               THEN [f EXCEPT !.isSubmitting = TRUE, !.handler = h]
               ELSE AfterResult(f, last'.value, h)

HandleSubmit ==
    /\ UNCHANGED << data, session >>
    /\ form.open /\ ~form.isSubmitting /\ ~loading /\ ~form.showDuplicateDialog
    /\ IF validateForm(form) # {}
       THEN /\ form' = [form EXCEPT !.handler = "submit"]
            /\ UNCHANGED providerVars
       ELSE IF form.leadId = 0 /\ form.duplicateWarning
       THEN /\ form' = [form EXCEPT !.showDuplicateDialog = TRUE, !.handler = "submit"]
            /\ UNCHANGED providerVars
       ELSE submitForm(form, "submit")

HandleDuplicateConfirm ==
    /\ UNCHANGED << data, session >>
    /\ form.open /\ form.showDuplicateDialog
    /\ submitForm([form EXCEPT !.showDuplicateDialog = FALSE, !.duplicateWarning = FALSE],
                  "confirm")

\* the dialog's other button: setShowDuplicateDialog(false)
HandleDuplicateCancel ==
    /\ UNCHANGED << data, session >>
    /\ form.open /\ form.showDuplicateDialog
    /\ form' = [form EXCEPT !.showDuplicateDialog = FALSE, !.handler = "cancel"]
    /\ UNCHANGED providerVars

\* createLead or updateLead, called by submitForm, returns
SubmitFormResponse(r, ok) ==
    /\ UNCHANGED << data, session >>
    /\ \/ CreateLeadResponseBody(r, ok)
       \/ UpdateLeadResponseBody(r, ok)
    /\ form' = IF form.isSubmitting THEN AfterResult(form, last'.value, "return") ELSE form

FormNext ==
    \/ \E id \in FormLeadArgs : OpenForm(id)
    \/ \E r \in inflight, ok \in BOOLEAN : LoadFormResponse(r, ok)
    \/ \E i \in FormInputs : HandleInputChange(i[1], i[2])
    \/ HandleSubmit
    \/ HandleDuplicateConfirm
    \/ HandleDuplicateCancel
    \/ \E r \in inflight, ok \in BOOLEAN : SubmitFormResponse(r, ok)
    \/ \E f \in {<< >>} : FetchLeadsCall(f)
    \/ \E r \in inflight, ok \in BOOLEAN : FetchLeadsResponse(r, ok)
    \/ MockSignIn
    \/ \E p \in dbUsers : FetchUserProfile(p, TRUE)

----------------------------------------------------------------------------
(* The list operation with every filter the lead list can set *)

\* filters objects of the lead list: none, status and assignee in both key
\* orders, pipeline with a search term, a search term alone
FilterArgs ==
    { << >>,
      << <<"status", "Qualified">>, <<"assigned_to", JohnId>> >>,
      << <<"assigned_to", JohnId>>, <<"status", "Qualified">> >>,
      << <<"pipeline_id", SalesPipeline>>, <<"search", "AARAV">> >>,
      << <<"search", "example">> >> }

FilterNext ==
    \/ \E f \in FilterArgs : FetchLeadsCall(f)
    \/ \E r \in inflight, ok \in BOOLEAN : FetchLeadsResponse(r, ok)
    \/ \E d \in LeadData : CreateLeadCall(d)
    \/ \E r \in inflight, ok \in BOOLEAN : CreateLeadResponse(r, ok)
    \/ AuthStep
    \/ \E t \in Instants : Tick(t)

FilterSpec == Init /\ [][FilterNext]_vars

----------------------------------------------------------------------------
(* A session already under way: the actor has signed in, the mount effect's
   fetchLeads({}) has been answered and a contact has been added to the first
   and then to the second seed lead.  The mutations of the Record Store are
   explored from there. *)

\* the clock value at which the session was loaded
LoadedAt == 1

\* actors a loaded session can have: table users when configured, the
\* mockUser of signIn or a signed-up Sales Rep when not
LoadedActors(configured) ==
    IF configured THEN dbUsers ELSE {mockUser, [id |-> JohnId, role |-> "Sales Rep"]}

\* the contacts the two addContact calls left in the store, newest first
LoadedContacts(configured) ==
    IF configured
    THEN << [id |-> DbFirstId + 1, lead_id |-> LeadB, name |-> "new"],
            [id |-> DbFirstId, lead_id |-> LeadA, name |-> "new"] >>
    ELSE << [id |-> LocalId(LoadedAt), lead_id |-> LeadB, name |-> "new"],
            [id |-> LocalId(0), lead_id |-> LeadA, name |-> "new"] >>

LoadedInit ==
    /\ supabase \in BOOLEAN
    /\ currentUser \in LoadedActors(supabase)
    /\ dbLeads = mockLeads
    /\ leads = IF supabase THEN applyRoleFilters(currentUser, mockLeads) ELSE mockLeads
    /\ contacts = LoadedContacts(supabase)
    /\ dbContacts = IF supabase THEN LoadedContacts(TRUE) \o seedContacts ELSE seedContacts
    /\ dbNextId = IF supabase THEN DbFirstId + 2 ELSE DbFirstId
    /\ leadsCache = IF supabase
                    THEN [list |-> MapSet(EmptyMap, << >>,
                                          [data |-> leads, timestamp |-> LoadedAt]),
                          lead |-> EmptyMap]
                    ELSE EmptyLeadsCache
    /\ contactsCache = EmptyMap
    /\ loading = FALSE
    /\ error = NoError
    /\ now = LoadedAt
    /\ inflight = {}
    /\ calls = 0
    /\ actorReplaced = FALSE
    /\ last = [op |-> "init", path |-> "", id |-> 0, lead |-> 0, key |-> << >>,
               user |-> NoUser, value |-> << >>, ids |-> {}, updates |-> NoUpdates,
               prev |-> NoPrev]
    /\ form = NoForm
    /\ data = DataInitial
    /\ session = IF supabase THEN currentUser.id ELSE NoSession
    /\ perm = NoPerm

\* the updates arguments tried on a loaded session: a status change, and a
\* LeadForm submission (status, assigned_to and org_id of the submitting user)
StoreUpdates ==
    Updates \cup { [status |-> "Won", assigned_to |-> JohnId, org_id |-> "org-2",
                    assignedTo |-> Absent] }

StoreNext ==
    \/ \E f \in {<< >>} : FetchLeadsCall(f)
    \/ \E r \in inflight, ok \in BOOLEAN : FetchLeadsResponse(r, ok)
    \/ \E d \in LeadData : CreateLeadCall(d)
    \/ \E r \in inflight, ok \in BOOLEAN : CreateLeadResponse(r, ok)
    \/ \E id \in LeadIds, u \in StoreUpdates : UpdateLeadCall(id, u)
    \/ \E r \in inflight, ok \in BOOLEAN : UpdateLeadResponse(r, ok)
    \/ \E id \in LeadIds : DeleteLeadCall(id)
    \/ \E r \in inflight, ok \in BOOLEAN, cok \in BOOLEAN : DeleteLeadResponse(r, ok, cok)
    \/ \E ids \in BulkIdArgs, u \in StoreUpdates : BulkUpdateLeadsCall(ids, u)
    \/ \E r \in inflight, ok \in BOOLEAN : BulkUpdateLeadsResponse(r, ok)
    \/ \E t \in Instants : Tick(t)

StoreSpec == LoadedInit /\ [][StoreNext]_vars

\* the form is opened before the list has loaded, or on a loaded session
FormInit == Init \/ LoadedInit

FormSpec == FormInit /\ [][FormNext]_vars

----------------------------------------------------------------------------
(* DataProvider: the synchronous store of DataContext.tsx *)

\* arguments of addLead and of updateLead
DataLeadData == { [status |-> "New", assignedTo |-> "user-1"] }

DataUpdates == { [status |-> "Won"] }

DataLeadIds == {1, 2}

\* setLeads(prev => [...prev, newLead])
addLead(leadData) ==
    /\ Called
    /\ data' = [data EXCEPT !.leads =
                   Append(@, [id |-> LocalId(now), status |-> leadData.status,
                              assignedTo |-> leadData.assignedTo])]
    /\ last' = Last("addLead", "data", LocalId(now), LocalId(now), << >>, NoUser, << >>)
    /\ UNCHANGED << supabase, currentUser, leads, contacts, loading, error, leadsCache,
                    contactsCache, now, dbLeads, dbContacts, dbNextId, inflight,
                    actorReplaced, perm, form, session >>

\* setLeads(prev => prev.map(lead => lead.id === id ? { ...lead, ...updates } : lead))
DataUpdateLead(id, updates) ==
    /\ Called
    /\ data' = [data EXCEPT !.leads =
                   [i \in 1..Len(@) |->
                       IF @[i].id = id THEN [@[i] EXCEPT !.status = updates.status]
                       ELSE @[i]]]
    /\ last' = Last("updateLead (DataProvider)", "data", id, id, << >>, NoUser, << >>)
    /\ UNCHANGED << supabase, currentUser, leads, contacts, loading, error, leadsCache,
                    contactsCache, now, dbLeads, dbContacts, dbNextId, inflight,
                    actorReplaced, perm, form, session >>

\* setLeads(prev.filter(...)); setContacts(prev.filter(...))
DataDeleteLead(id) ==
    /\ Called
    /\ data' = [leads |-> SelectSeq(data.leads, LAMBDA l : l.id # id),
                contacts |-> SelectSeq(data.contacts, LAMBDA c : c.leadId # id)]
    /\ last' = Last("deleteLead (DataProvider)", "data", id, id, << >>, NoUser, << >>)
    /\ UNCHANGED << supabase, currentUser, leads, contacts, loading, error, leadsCache,
                    contactsCache, now, dbLeads, dbContacts, dbNextId, inflight,
                    actorReplaced, perm, form, session >>

\* both stores of leads: the operations of LeadDataProvider on a loaded
\* session, and those of DataProvider
OrderNext ==
    \/ \E d \in LeadData : CreateLeadCall(d)
    \/ \E r \in inflight, ok \in BOOLEAN : CreateLeadResponse(r, ok)
    \/ \E id \in LeadIds, u \in StoreUpdates : UpdateLeadCall(id, u)
    \/ \E r \in inflight, ok \in BOOLEAN : UpdateLeadResponse(r, ok)
    \/ \E ids \in BulkIdArgs, u \in StoreUpdates : BulkUpdateLeadsCall(ids, u)
    \/ \E r \in inflight, ok \in BOOLEAN : BulkUpdateLeadsResponse(r, ok)
    \/ \E d \in DataLeadData : addLead(d)
    \/ \E id \in DataLeadIds, u \in DataUpdates : DataUpdateLead(id, u)
    \/ \E id \in DataLeadIds : DataDeleteLead(id)
    \/ \E t \in Instants : Tick(t)

OrderSpec == LoadedInit /\ [][OrderNext]_vars

----------------------------------------------------------------------------
(* Two operations on one lead in flight at once: a loaded, configured session
   from which two calls were issued before either response was delivered.
   The backend processes the two requests in either order and the responses
   are delivered in either order. *)

RaceUpdates ==
    StoreUpdates \cup { [status |-> "Lost", assigned_to |-> Absent, org_id |-> Absent,
                         assignedTo |-> Absent] }

\* two calls were issued on one stored lead the actor may edit: two updateLead
\* calls, or a fetchLeadById and an updateLead; inflight holds the requests
\* the calls left and last is the call issued second
RaceInit ==
    /\ supabase = TRUE
    /\ currentUser \in LoadedActors(TRUE)
    /\ dbLeads = mockLeads
    /\ leads = applyRoleFilters(currentUser, mockLeads)
    /\ contacts = LoadedContacts(TRUE)
    /\ dbContacts = LoadedContacts(TRUE) \o seedContacts
    /\ dbNextId = DbFirstId + 2
    /\ leadsCache = [list |-> MapSet(EmptyMap, << >>,
                                     [data |-> leads, timestamp |-> LoadedAt]),
                     lead |-> EmptyMap]
    /\ contactsCache = EmptyMap
    /\ loading = TRUE
    /\ error = NoError
    /\ now = LoadedAt
    /\ calls = 2
    /\ actorReplaced = FALSE
    /\ form = NoForm
    /\ data = DataInitial
    /\ session = currentUser.id
    /\ perm = NoPerm
    /\ \E i \in 1..Len(leads) :
          LET lead == leads[i]
              update(u, prev) ==
                  [Request("updateLead", lead.id, << >>, currentUser, lead, u, NoContact)
                     EXCEPT !.prev = prev]
              fetch == Request("fetchLeadById", lead.id, << >>, currentUser, NoLead,
                               NoUpdates, NoContact)
              second(op, u) ==
                  [Last(op, "call", lead.id, lead.id, << >>, currentUser, << >>)
                     EXCEPT !.updates = u]
          IN
          /\ ~updateLeadDenied(currentUser, lead)
          /\ \/ \E u1 \in RaceUpdates, u2 \in RaceUpdates :
                   /\ inflight =
                        { update(u1, NoPrev),
                          update(u2, [op |-> "updateLead", path |-> "call",
                                      id |-> lead.id, updates |-> u1]) }
                   /\ last = second("updateLead", u2)
             \/ \E u \in RaceUpdates :
                   /\ inflight = { fetch, update(u, NoPrev) }
                   /\ \/ last = second("updateLead", u)
                      \/ last = second("fetchLeadById", NoUpdates)

RaceNext ==
    \/ \E r \in inflight : ServeFetchLeadById(r)
    \/ \E r \in inflight, ok \in BOOLEAN : FetchLeadByIdResponse(r, ok)
    \/ \E r \in inflight : ServeUpdateLead(r)
    \/ \E r \in inflight, ok \in BOOLEAN : UpdateLeadResponse(r, ok)
    \/ \E t \in Instants : Tick(t)

RaceSpec == RaceInit /\ [][RaceNext]_vars

----------------------------------------------------------------------------
(* Every façade operation, with the delivery of its response taken to be
   fair: the promise a call awaits settles (with a result or an error) and
   the continuation after the await then runs *)

\* the continuation of some call in flight runs
Responses ==
    \/ \E r \in inflight, ok \in BOOLEAN : FetchLeadsResponse(r, ok)
    \/ \E r \in inflight, ok \in BOOLEAN : FetchLeadByIdResponse(r, ok)
    \/ \E r \in inflight, ok \in BOOLEAN : CreateLeadResponse(r, ok)
    \/ \E r \in inflight, ok \in BOOLEAN : UpdateLeadResponse(r, ok)
    \/ \E r \in inflight, ok \in BOOLEAN, cok \in BOOLEAN : DeleteLeadResponse(r, ok, cok)
    \/ \E r \in inflight, ok \in BOOLEAN : BulkUpdateLeadsResponse(r, ok)
    \/ \E r \in inflight, ok \in BOOLEAN : FetchContactsByLeadIdResponse(r, ok)
    \/ \E r \in inflight, ok \in BOOLEAN : AddContactResponse(r, ok)
    \/ \E r \in inflight, ok \in BOOLEAN : UpdateContactResponse(r, ok)
    \/ \E r \in inflight, ok \in BOOLEAN : DeleteContactResponse(r, ok)

LiveNext ==
    \/ \E f \in Filters : FetchLeadsCall(f)
    \/ \E id \in LeadIds : FetchLeadByIdCall(id)
    \/ \E d \in LeadData : CreateLeadCall(d)
    \/ \E id \in LeadIds, u \in Updates : UpdateLeadCall(id, u)
    \/ \E id \in LeadIds : DeleteLeadCall(id)
    \/ \E ids \in BulkIdArgs, u \in Updates : BulkUpdateLeadsCall(ids, u)
    \/ \E id \in ContactLeadArgs : FetchContactsByLeadIdCall(id)
    \/ \E id \in ContactLeadArgs : AddContactCall(id)
    \/ \E id \in ContactIdArgs : UpdateContactCall(id)
    \/ \E id \in ContactIdArgs : DeleteContactCall(id)
    \/ Responses
    \/ AuthStep
    \/ \E t \in Instants : Tick(t)

LiveSpec == Init /\ [][LiveNext]_vars /\ WF_vars(Responses)

----------------------------------------------------------------------------
(* LeadList: the bulk actions on the selected leads of a loaded session *)

\* the users of the 'Assign To' select and the status of the 'Change Status'
\* select
BulkActionArgs ==
    { << "assign", JohnId >>, << "assign", SarahId >>, << "status", "Won" >> }

\* const updates = {}; updates.status = value / updates.assignedTo = value
bulkActionUpdates(action, value) ==
    [NoUpdates EXCEPT !.status = IF action = "status" THEN value ELSE Absent,
                      !.assignedTo = IF action = "assign" THEN value ELSE Absent]

\* handleBulkAction(action, value) for 'status' and 'assign' on selectedLeads,
\* a non-empty set of the leads on display: the alert and return when a
\* selected lead may not be edited, bulkUpdateLeads otherwise
HandleBulkAction(leadIds, action, value) ==
    LET leadsToUpdate == SelectSeq(leads, LAMBDA l : l.id \in leadIds)
        unauthorizedLeads ==
            SelectSeq(leadsToUpdate, LAMBDA l : ~hasPermission(currentUser, "edit", l))
    IN
    /\ Len(unauthorizedLeads) = 0
    /\ BulkUpdateLeadsCall(leadIds, bulkActionUpdates(action, value))

BulkNext ==
    \/ \E ids \in (SUBSET { l.id : l \in SeqToSet(leads) }) \ {{}}, a \in BulkActionArgs :
          HandleBulkAction(ids, a[1], a[2])
    \/ \E r \in inflight, ok \in BOOLEAN : BulkUpdateLeadsResponse(r, ok)
    \/ \E t \in Instants : Tick(t)

BulkSpec == LoadedInit /\ [][BulkNext]_vars

----------------------------------------------------------------------------
(* The access policy on its own: every actor, action and record *)

PolicyRoles == {"Admin", "Manager", "Sales Rep", "Viewer"}

PolicyActors == {NoUser} \cup [id : UserIds, role : PolicyRoles]

PolicyActions == {"view", "create", "edit", "delete", "export"}

PolicyLeads ==
    {NoLead} \cup [id : {LeadA}, name : {"Mohammed Yousuf"}, email : {"yousuf@example.com"},
                   status : {"New"}, pipeline_id : {SalesPipeline},
                   assigned_to : UserIds \cup {Undefined}, org_id : {"org-1"}]

PolicyInit ==
    /\ InitFacade
    /\ perm \in { [user |-> u, action |-> "", lead |-> NoLead, result |-> ""] :
                    u \in PolicyActors }

\* a direct call hasPermission(action, lead) by the actor perm.user
CallHasPermission(action, lead) ==
    /\ UNCHANGED << form, data, session >>
    /\ perm' = [user |-> perm.user, action |-> action, lead |-> lead,
                result |-> hasPermissionValue(perm.user, action, lead)]
    /\ UNCHANGED << supabase, currentUser, leads, contacts, loading, error, leadsCache,
                    contactsCache, now, dbLeads, dbContacts, dbNextId, inflight,
                    calls, actorReplaced, last >>

PolicyNext == \E a \in PolicyActions, l \in PolicyLeads : CallHasPermission(a, l)

PolicySpec == PolicyInit /\ [][PolicyNext]_vars

----------------------------------------------------------------------------
(* Access Policy: claims C1..C4, checked under PolicySpec *)

PolicyCalled == perm.action # ""

\* C1: for an actor with role Sales Rep and a lead L passed as the record,
\* hasPermission('view', L) allows exactly when L.assigned_to is the actor's id
C1_SalesRepViewOwnOnly ==
    (PolicyCalled /\ perm.user.role = "Sales Rep" /\ perm.action = "view"
        /\ perm.lead # NoLead)
    => (Truthy(perm.result) <=> perm.lead.assigned_to = perm.user.id)

C1_Witness ==
    /\ perm.user.role = "Sales Rep" /\ perm.action = "view" /\ perm.lead # NoLead
    /\ perm.lead.assigned_to # perm.user.id
    /\ perm.result = "false"

\* C2: for an actor with role Admin or Manager, hasPermission allows view,
\* create, edit and delete, for every record and with no record
C2_AdminManagerAllowed ==
    (PolicyCalled /\ perm.user.role \in {"Admin", "Manager"}
        /\ perm.action \in {"view", "create", "edit", "delete"})
    => perm.result = "true"

C2_Witness ==
    /\ perm.user.role = "Manager" /\ perm.action = "delete"
    /\ perm.lead # NoLead /\ perm.lead.assigned_to # perm.user.id
    /\ perm.result = "true"

\* C3: for an actor with role Sales Rep, edit and delete allow exactly when a
\* record is given and its assigned_to is the actor's id (so they deny when no
\* record is given), and create always allows
C3_SalesRepEditDeleteCreate ==
    (PolicyCalled /\ perm.user.role = "Sales Rep")
    => /\ (perm.action \in {"edit", "delete"}
             => (Truthy(perm.result)
                   <=> (perm.lead # NoLead /\ perm.lead.assigned_to = perm.user.id)))
       /\ (perm.action = "create" => Truthy(perm.result))

C3_Witness ==
    /\ perm.user.role = "Sales Rep" /\ perm.action = "edit" /\ perm.lead = NoLead
    /\ ~Truthy(perm.result)

\* C4: with no current actor, or an actor whose role is none of Admin, Manager
\* and Sales Rep, hasPermission denies every action for every record
C4_UnknownActorDenied ==
    (PolicyCalled
        /\ (perm.user = NoUser \/ perm.user.role \notin {"Admin", "Manager", "Sales Rep"}))
    => ~Truthy(perm.result)

C4_Witness ==
    /\ perm.user # NoUser /\ perm.user.role = "Viewer"
    /\ perm.action = "view" /\ perm.lead # NoLead
    /\ perm.result = "false"

----------------------------------------------------------------------------
(* Lead mutations and reads: claims C5, C7..C10, checked under Spec;
   contact mutations: claim C6, checked under ContactSpec *)

\* a step that calls a façade operation, and one that applies a response
CallStep == calls' # calls
ResponseStep == inflight' # inflight /\ inflight' \subseteq inflight /\ calls' = calls

\* the policy's verdict on the mutation the step calls
PolicyDenies(op, leadId) ==
    CASE op = "createLead" -> ~hasPermission(currentUser, "create", NoLead)
      [] op = "updateLead" ->
            ~HasId(leads, leadId)
            \/ ~hasPermission(currentUser, "edit", FindLead(leads, leadId))
      [] op = "deleteLead" ->
            ~HasId(leads, leadId)
            \/ ~hasPermission(currentUser, "delete", FindLead(leads, leadId))
      [] OTHER -> FALSE

\* C5: when the access policy denies createLead, updateLead or deleteLead (for
\* the last two also when the id is not in the Record Store), the call sends
\* nothing to persistence, leaves leads, contacts and both caches as they
\* were, sets an error message and returns null/false
C5_DeniedMutationHasNoEffect ==
    [][ (CallStep /\ last'.op \in {"createLead", "updateLead", "deleteLead"}
            /\ PolicyDenies(last'.op, last'.id))
        => /\ inflight' = inflight
           /\ dbLeads' = dbLeads /\ dbContacts' = dbContacts
           /\ leads' = leads /\ contacts' = contacts
           /\ leadsCache' = leadsCache /\ contactsCache' = contactsCache
           /\ error' # NoError
           /\ last'.value = << >> ]_vars

C5_Witness ==
    /\ last.op = "updateLead" /\ last.path = "denied"
    /\ currentUser.role = "Sales Rep"
    /\ HasId(leads, last.id)
    /\ FindLead(leads, last.id).assigned_to # currentUser.id
    /\ leadsCache.list # EmptyMap
    /\ error = "You do not have permission to edit this lead"

\* the parent lead of a contact operation: the Record Store's snapshot, or
\* the stored row when the Record Store does not hold it
ParentLead(leadId) ==
    IF HasId(leads, leadId) THEN FindLead(leads, leadId)
    ELSE FindLead(IF supabase THEN dbLeads ELSE mockLeads, leadId)

\* C6: addContact, updateContact and deleteContact change the contacts store
\* or call persistence only when the actor has edit permission on the parent
\* lead
C6_ContactMutationsGated ==
    [][ (CallStep /\ last'.op \in {"addContact", "updateContact", "deleteContact"}
            /\ currentUser # NoUser
            /\ ~hasPermission(currentUser, "edit", ParentLead(last'.lead)))
        => (contacts' = contacts /\ inflight' = inflight) ]_vars

\* C7: on every path fetchLeadById returns no lead that hasPermission('view',
\* lead) denies to the actor at the time of return, and writes no such lead to
\* the cache
C7_FetchLeadByIdGated ==
    [][ ((CallStep \/ ResponseStep) /\ last'.op = "fetchLeadById"
            /\ currentUser' # NoUser)
        => /\ last'.value # << >>
                => hasPermission(currentUser', "view", last'.value[1])
           /\ leadsCache'.lead # leadsCache.lead
                => hasPermission(currentUser', "view", leadsCache'.lead[last'.id].data) ]_vars

\* the data set behind the source that answered a list query
SourceLeads(path) == IF path = "fetched" THEN dbLeads ELSE mockLeads

\* C8: while a Sales Rep is the actor for the whole session, fetchLeads({})
\* returns exactly the leads assigned to the actor, in the source's order,
\* whether persistence, the cache or the seed data set answers
C8_SalesRepListOwnOnly ==
    (last.op = "fetchLeads" /\ last.key = << >>
        /\ last.user.role = "Sales Rep" /\ ~actorReplaced)
    => /\ last.path \in {"fetched", "mock", "fallback"}
            => last.value = SelectSeq(SourceLeads(last.path),
                                      LAMBDA l : l.assigned_to = last.user.id)
       /\ last.path = "cache"
            => \A i \in 1..Len(last.value) : last.value[i].assigned_to = last.user.id

\* C9: an entry written at T0 is served without a persistence call while
\* t - T0 < 300000 and is treated as absent when t - T0 >= 300000, for the
\* list cache and the single-lead cache and for every T0, T0 = 0 included
C9_CacheWindow ==
    [][ /\ (CallStep /\ last'.op = "fetchLeads" /\ last'.path \in {"cache", "call"}
              /\ last'.key \in DOMAIN leadsCache.list)
           => (last'.path = "cache"
                 <=> now - leadsCache.list[last'.key].timestamp < 300000)
        /\ (CallStep /\ last'.op = "fetchLeadById" /\ last'.path \in {"cache", "call"}
              /\ last'.id \in DOMAIN leadsCache.lead
              /\ hasPermission(currentUser, "view", leadsCache.lead[last'.id].data))
           => (last'.path = "cache"
                 <=> now - leadsCache.lead[last'.id].timestamp < 300000) ]_vars

\* C10: after a successful createLead, updateLead, deleteLead or
\* bulkUpdateLeads the cache holds no single-record entry for an affected id
\* and no list entry at all
C10_MutationClearsCache ==
    (last.op \in {"createLead", "updateLead", "deleteLead", "bulkUpdateLeads"}
        /\ last.path \in {"persisted", "simulated"})
    => /\ last.id \notin DOMAIN leadsCache.lead
       /\ last.ids \cap DOMAIN leadsCache.lead = {}
       /\ leadsCache.list = EmptyMap

\* the leads named in ids that the policy does not let the actor edit
UnauthorizedIds(ids) ==
    { id \in ids : ParentLead(id) # NoLead
                   /\ ~hasPermission(currentUser, "edit", ParentLead(id)) }

\* C11: bulkUpdateLeads(ids, updates) is all-or-nothing: when the actor lacks
\* edit permission on at least one lead named in ids, no lead of the Record
\* Store changes, nothing is sent to persistence, the caches are unchanged and
\* the error carries the exact number of unauthorized leads
C11_BulkAllOrNothing ==
    [][ (CallStep /\ last'.op = "bulkUpdateLeads"
            /\ currentUser # NoUser /\ leads # << >>
            /\ UnauthorizedIds(last'.ids) # {})
        => /\ leads' = leads
           /\ inflight' = inflight
           /\ dbLeads' = dbLeads
           /\ leadsCache' = leadsCache /\ contactsCache' = contactsCache
           /\ error' = bulkDeniedMessage(Cardinality(UnauthorizedIds(last'.ids))) ]_vars

----------------------------------------------------------------------------
(* Record Store effects of the lead mutations: claims C12.., checked under
   StoreSpec unless stated otherwise *)

\* a step in which the operation op returns to its caller
Completes(op) ==
    /\ CallStep \/ ResponseStep
    /\ last'.op = op
    /\ last'.path \in {"simulated", "persisted", "failed"}

FetchAfterCreate(newId) ==
    /\ last'.op = "fetchLeads" /\ last'.key = << >>
    /\ last'.path \in {"mock", "cache", "fetched", "fallback"}
    /\ \/ /\ CallStep
          /\ FollowsCreate /\ last.id = newId
       \/ /\ ResponseStep
          /\ last.op = "fetchLeads" /\ last.path = "call"
          /\ \E r \in inflight :
                /\ inflight' = inflight \ {r}
                /\ r.op = "fetchLeads" /\ r.prev.op = "createLead" /\ r.prev.id = newId

\* C13: a createLead that returns a new lead, followed immediately by
\* fetchLeads({}), yields a list whose first element is the new lead, with no
\* TTL expiry in between, with persistence configured and without
C13_CreatedLeadListedFirst ==
    [][ \A newId \in { l.id : l \in SeqToSet(leads) } :
          (FetchAfterCreate(newId) /\ currentUser # NoUser)
          => (last'.value # << >> /\ last'.value[1].id = newId) ]_vars

\* updateLead returns in this step and repeats, on the same path and with
\* nothing in between, the updateLead that returned just before it was called
SecondUpdateReturns ==
    /\ Completes("updateLead")
    /\ last'.prev.op = "updateLead" /\ last'.prev.path = last'.path
    /\ ResponseStep => (last.op = "updateLead" /\ last.path = "call")

\* C14: for any Record Store, lead id in it and update values, updateLead(id,
\* values) performed twice in succession leaves the Record Store that
\* performing it once leaves (same leads, same order, same field values)
C14_UpdateTwiceSameAsOnce ==
    [][ SecondUpdateReturns => leads' = leads ]_vars

C14_Witness ==
    /\ last.op = "updateLead" /\ last.path = "persisted"
    /\ last.prev.op = "updateLead" /\ last.prev.path = "persisted"
    /\ last.updates.assigned_to = JohnId
    /\ HasId(leads, last.id)
    /\ FindLead(leads, last.id) = UpdateRow(FindLead(mockLeads, last.id), last.updates)
    /\ FindLead(leads, last.id) # FindLead(mockLeads, last.id)

\* C15: no updateLead or bulkUpdateLeads call, whatever its updates argument
\* carries and whichever path runs (persistence, local simulation, error
\* fallback), changes the organization id of a lead in the Record Store
C15_OrgIdImmutable ==
    [][ ((CallStep \/ ResponseStep) /\ last'.op \in {"updateLead", "bulkUpdateLeads"})
        => \A i \in 1..Len(leads), j \in 1..Len(leads') :
              leads'[j].id = leads[i].id => leads'[j].org_id = leads[i].org_id ]_vars

\* the request whose failed persistence call is handled in this step
FailedRequest(r, op) ==
    /\ ResponseStep /\ r \in inflight /\ inflight' = inflight \ {r}
    /\ r.op = op /\ last'.op = op /\ last'.path = "failed"

\* the fields an updates argument carries are the fields of the lead
CarriesUpdates(lead, updates) ==
    /\ updates.status # Absent => lead.status = updates.status
    /\ updates.assigned_to # Absent => lead.assigned_to = updates.assigned_to

SeedMatching(filters) ==
    LET Holds(l, pair) ==
            CASE pair[1] = "status" -> l.status = pair[2]
              [] pair[1] = "assigned_to" -> l.assigned_to = pair[2]
              [] pair[1] = "pipeline_id" -> l.pipeline_id = pair[2]
              [] pair[1] = "search" ->
                    \/ includes(toLowerCase(Chars(l.name)), toLowerCase(Chars(pair[2])))
                    \/ includes(toLowerCase(Chars(l.email)), toLowerCase(Chars(pair[2])))
    IN  SelectSeq(mockLeads, LAMBDA l : \A i \in 1..Len(filters) : Holds(l, filters[i]))

\* a fetchLeads step that found persistence unconfigured, or whose
\* persistence call failed
FetchFellBack ==
    /\ last'.op = "fetchLeads"
    /\ \/ CallStep /\ ~supabase
       \/ ResponseStep /\ last'.path = "fallback"

\* one fetchLeads call sends at most one request, and a failed request is
\* not sent again
NoRetry ==
    /\ last'.op = "fetchLeads" /\ CallStep
          => Cardinality(inflight' \ inflight) <= (IF supabase THEN 1 ELSE 0)
    /\ last'.op = "fetchLeads" /\ ResponseStep => inflight' \subseteq inflight

\* C17 as stated: when persistence is unconfigured or its call fails,
\* fetchLeads makes at most one persistence attempt and then returns, and
\* stores in the Record Store, exactly the seed leads that match the status,
\* assigned-user, pipeline and search filters
C17_FallbackSeedLeads_AsStated ==
    [][ /\ NoRetry
        /\ FetchFellBack
              => /\ last'.value = SeedMatching(last'.key)
                 /\ leads' = SeedMatching(last'.key) ]_vars

\* C17: the same, for a call made by an actor that holds the view permission
C17_FallbackSeedLeads ==
    [][ /\ NoRetry
        /\ (FetchFellBack /\ hasPermission(last'.user, "view", NoLead))
              => /\ last'.value = SeedMatching(last'.key)
                 /\ leads' = SeedMatching(last'.key) ]_vars

C17_Witness ==
    /\ last.op = "fetchLeads" /\ last.path = "fallback"
    /\ FilterGet(last.key, "search") = "AARAV"
    /\ leads = << mockLeads[2] >>
    /\ last.value = leads
    /\ Len(dbLeads) > Len(mockLeads)

\* two filters objects hold the same key/value pairs
SamePairs(f, g) == SeqToSet(f) = SeqToSet(g)

\* a list entry written, at a clock value other than 0, less than the expiry
\* time ago (an entry written at clock value 0 is the case of C9)
WithinTTL(entry) == entry.timestamp > 0 /\ (now - entry.timestamp) < CACHE_EXPIRY

\* C19: two fetchLeads calls whose filter objects hold the same key/value
\* pairs, in whatever key order, use the same cache key: the second call
\* within the TTL is answered from the entry the first one wrote, without a
\* persistence call
C19_CacheKeyIgnoresKeyOrder ==
    [][ \A k \in DOMAIN leadsCache.list :
          ( /\ CallStep /\ last'.op = "fetchLeads"
            /\ supabase /\ hasPermission(currentUser, "view", NoLead)
            /\ SamePairs(k, last'.key)
            /\ WithinTTL(leadsCache.list[k]) )
          => /\ last'.path = "cache"
             /\ last'.value = leadsCache.list[k].data
             /\ inflight' = inflight ]_vars

\* the form's values do not pass validateForm, or the form is for a new lead
\* and a lead of the Record Store has its email, letter case aside
FailsValidation ==
    \/ validateForm(form) # {}
    \/ /\ form.leadId = 0
       /\ \E i \in 1..Len(leads) :
             toLowerCase(Chars(leads[i].email)) = toLowerCase(Chars(form.email))

\* a step of handleSubmit
SubmitStep ==
    /\ form.open /\ form'.handler = "submit"
    /\ form' # form \/ (CallStep /\ last'.op \in {"createLead", "updateLead"})

\* C18: a form submission that fails validation, including a new lead whose
\* email equals (case-insensitively) the email of a lead already in the
\* Record Store, never reaches createLead or updateLead: no persistence call
\* is made and neither the Record Store nor the cache is changed by it
C18_InvalidSubmissionBlocked ==
    [][ (SubmitStep /\ FailsValidation)
        => /\ calls' = calls /\ inflight' = inflight
           /\ leads' = leads /\ leadsCache' = leadsCache /\ dbLeads' = dbLeads ]_vars

\* the ids of a store's leads, in the store's order
Ids(s) == [i \in 1..Len(s) |-> s[i].id]

\* a step in which operation op of LeadDataProvider wrote the Record Store
Writes(ops) ==
    /\ CallStep \/ ResponseStep
    /\ last'.op \in ops /\ last'.path \in {"simulated", "persisted", "failed"}

\* C20: updateLead and bulkUpdateLeads leave every lead of the Record Store
\* at the index it had (the sequence of lead ids is unchanged), and a lead
\* added by the create operation is placed at index 0, ahead of all existing
\* leads; this for the store of LeadDataProvider and for that of DataProvider
C20_UpdateKeepsIndexCreatePrepends ==
    [][ /\ Writes({"updateLead", "bulkUpdateLeads"}) => Ids(leads') = Ids(leads)
        /\ Writes({"createLead"}) => Ids(leads') = << last'.id >> \o Ids(leads)
        /\ (CallStep /\ last'.op = "updateLead (DataProvider)")
              => Ids(data'.leads) = Ids(data.leads)
        /\ (CallStep /\ last'.op = "addLead")
              => Ids(data'.leads) = << last'.id >> \o Ids(data.leads) ]_vars

\* the lead a returning fetchLeadById step looked up: the seed lead on the
\* unconfigured path and on the error fallback, the stored row otherwise
LookedUp ==
    IF last'.path \in {"mock", "fallback"}
    THEN FindLead(mockLeads, last'.id)
    ELSE FindLead(dbLeads, last'.id)

\* a fetchLeadById step that returns after a lookup (not from the cache)
LookupReturns ==
    /\ last'.op = "fetchLeadById"
    /\ \/ CallStep /\ last'.path = "mock"
       \/ ResponseStep /\ last'.path \in {"forbidden", "fetched", "fallback"}

\* the error states a fetchLeadById for an id that matches no lead leaves:
\* none without a persistence client, the handleError message otherwise
MissingIdErrors == {NoError, handleErrorMessage("fetch lead details")}

\* C21: when fetchLeadById finds the lead but the actor is denied view on
\* it, it returns none and the error state it sets differs from the state a
\* missing id leaves, on every path (persistence fetch, seed lookup without
\* a persistence client, error fallback)
C21_ForbiddenDistinctFromMissing ==
    [][ (LookupReturns /\ LookedUp # NoLead /\ last'.user # NoUser
            /\ ~hasPermission(last'.user, "view", LookedUp))
        => /\ last'.value = << >>
           /\ error' \notin MissingIdErrors ]_vars

----------------------------------------------------------------------------
(* Operations in flight together: claims C22.., checked under RaceSpec *)

\* the response of updateLead request r is delivered in this step, as the
\* second of two updateLead responses, and leaves nothing in flight
SecondUpdateResponse(r) ==
    /\ ResponseStep /\ inflight = {r} /\ inflight' = {}
    /\ r.op = "updateLead" /\ last'.op = "updateLead"
    /\ last.op = "updateLead" /\ last.path \in {"persisted", "failed"}
    /\ last.id = r.id

\* the lead the response of updateLead request r yields: the row the backend
\* returned, or the captured lead merged with the updates when it failed
ResponseResult(r) ==
    IF last'.path = "persisted" THEN UpdatedRow(r) ELSE MergeLead(r.lead, r.updates)

----------------------------------------------------------------------------
(* Termination of the façade operations: claim C23, checked under LiveSpec *)

FacadeOps ==
    {"fetchLeads", "fetchLeadById", "createLead", "updateLead", "deleteLead",
     "bulkUpdateLeads", "fetchContactsByLeadId", "addContact", "updateContact",
     "deleteContact"}

\* a call of the operation awaits its response
Pending(op) == \E r \in inflight : r.op = op

\* the step just taken is a return of the operation to its caller
Returned(op) == last.op = op /\ last.path \notin {"", "call"}

\* a façade operation is started in this step
Starts(op) == CallStep /\ last'.op = op

\* C23: every started façade operation returns an outcome to its caller at
\* once or awaits persistence and then eventually returns one, whether
\* persistence succeeds, fails or is unconfigured and whether permission is
\* granted or denied, and whenever no operation is in flight the loading flag
\* is false
C23_OperationsTerminate ==
    /\ [](inflight = {} => loading = FALSE)
    /\ [][ \A op \in FacadeOps :
              Starts(op) => \/ last'.path \notin {"", "call"}
                            \/ \E r \in inflight' : r.op = op ]_vars
    /\ \A op \in FacadeOps : Pending(op) ~> (Returned(op) /\ ~Pending(op))

\* an operation that awaited persistence has returned after a failure, and
\* nothing is in flight
C23_Witness ==
    /\ inflight = {} /\ loading = FALSE
    /\ last.op \in FacadeOps /\ last.path \in {"failed", "fallback"}

----------------------------------------------------------------------------
(* The ids a bulk update sends: claim C24, checked under StoreSpec *)

\* C24: bulkUpdateLeads sends to persistence an update only for ids whose
\* edit permission was checked against a Record Store entry: an id of the
\* argument with no Record Store entry is never among the ids of the
\* persistence update
C24_BulkSendsOnlyCheckedIds ==
    [][ \A r \in inflight' \ inflight :
          r.op = "bulkUpdateLeads"
          => \A id \in r.ids :
                /\ HasId(leads, id)
                /\ hasPermission(r.user, "edit", FindLead(leads, id)) ]_vars

----------------------------------------------------------------------------
(* The list cache across a change of actor: claim C25, checked under Spec *)

\* fetchLeads is answered from the list cache in this step, after the actor
\* of the session was replaced
CacheServesNewActor ==
    /\ CallStep /\ last'.op = "fetchLeads" /\ last'.path = "cache"
    /\ actorReplaced /\ currentUser # NoUser

\* C25: a list-cache entry written while one actor was current is never
\* served to a different actor: after the actor is replaced while the
\* provider stays mounted, a fetchLeads by the new actor within the TTL
\* returns no lead the new actor is not permitted to view
C25_CacheNotServedAcrossActors ==
    [][ CacheServesNewActor
        => \A i \in 1..Len(last'.value) :
              hasPermission(currentUser, "view", last'.value[i]) ]_vars

----------------------------------------------------------------------------
(* The actor of the session context: claim C26, checked under Spec *)

\* the stored profile of the authenticated user
StoredProfile(userId) == { p \in dbUsers : p.id = userId }

\* C26: with a persistence client, the actor held by the session context is
\* always either none or the stored profile of the authenticated user: a
\* failed profile fetch never installs an actor with another id or a role
\* the user does not have
C26_ActorIsStoredProfile ==
    supabase => (currentUser = NoUser \/ currentUser \in StoredProfile(session))

----------------------------------------------------------------------------
(* The single-lead cache after an update: claim C27, checked under RaceSpec *)

\* the response of fetchLeadById request r is delivered in this step, after
\* an updateLead of the same lead has returned its persisted row
FetchAppliedAfterUpdate(r) ==
    /\ ResponseStep /\ r \in inflight /\ inflight' = inflight \ {r}
    /\ r.op = "fetchLeadById"
    /\ last.op = "updateLead" /\ last.path = "persisted" /\ last.id = r.id

\* C27: once a successful updateLead(id) has completed, the cache never holds
\* a single-lead entry for id with the data from before the update, even when
\* a fetchLeadById(id) was issued before the update and its response is
\* applied after the update has removed the entry
C27_NoStaleEntryAfterUpdate ==
    [][ \A r \in inflight :
          (FetchAppliedAfterUpdate(r) /\ r.id \in DOMAIN leadsCache'.lead)
          => leadsCache'.lead[r.id].data = last.value[1] ]_vars

----------------------------------------------------------------------------
(* Ids of the Record Store: claim C28, checked under Spec *)

\* C28: in every reachable state no two leads of the Record Store have the
\* same id, after any sequence of createLead calls (persisted, simulated or
\* fallback), two creates at the same clock millisecond included
C28_LeadIdsUnique ==
    \A i \in 1..Len(leads), j \in 1..Len(leads) : i # j => leads[i].id # leads[j].id

----------------------------------------------------------------------------
(* Contacts and their leads: claim C29, checked under Spec *)

\* C29: in every reachable state each contact of the Record Store refers to a
\* lead present in the Record Store: no sequence of addContact, fetchLeads,
\* createLead and deleteLead leaves a contact whose lead id matches no
\* stored lead
C29_ContactsReferToStoredLeads ==
    \A i \in 1..Len(contacts) : HasId(leads, contacts[i].lead_id)

----------------------------------------------------------------------------
(* The bulk 'assign' action of the lead list: claim C30, checked under
   BulkSpec *)

\* bulkUpdateLeads, called by the bulk action 'assign', returns in this step
AssignCompletes ==
    /\ Writes({"bulkUpdateLeads"})
    /\ last'.updates.assignedTo # Absent

\* C30: after the lead list's bulk 'assign' action to user U completes for
\* selected leads the actor may edit, every selected lead of the Record Store
\* has U in assigned_to, the field hasPermission and the role filter read,
\* and the persistence update carries that assignment
C30_BulkAssignSetsAssignedTo ==
    [][ /\ AssignCompletes
           => \A id \in last'.ids :
                 HasId(leads', id)
                 => FindLead(leads', id).assigned_to = last'.updates.assignedTo
        /\ \A r \in inflight' \ inflight :
              (r.op = "bulkUpdateLeads" /\ r.updates.assignedTo # Absent)
              => r.updates.assigned_to = r.updates.assignedTo ]_vars

====
